---- MODULE Spec2Model ----
(***************************************************************************)
(* Model of the AI Fashion Studio front end (src/src/App.tsx): the         *)
(* settings load/merge path (loadInitialSettings) and the client-side      *)
(* export pipeline in its two handlers, handleFinalDownload (first App     *)
(* component of the file) and handleDownload (second App component); the   *)
(* generate / enhance flow of both components with the Gemini service      *)
(* (src/unnamed/part_000); and the zoomable ImageDisplay                   *)
(* (src/unnamed/part_001).                                                 *)
(*                                                                         *)
(* JavaScript numbers that the pipeline computes with (aspect ratios,      *)
(* target sizes, crop rectangles, the zoom scale and pan position) are     *)
(* IEEE 754 doubles <<s, lo, hi, e>> standing for s * (lo + hi * 2^30) *   *)
(* 2^e; every product, quotient, sum and difference is rounded to nearest  *)
(* even as the JavaScript engine rounds it, and Math.round is applied      *)
(* where the code applies it.                                              *)
(***************************************************************************)
EXTENDS Integers, Sequences, FiniteSets, TLC

VARIABLES
  app,             \* which App component of App.tsx is mounted
  stored,          \* localStorage entry under SETTINGS_STORAGE_KEY
  exportSettings,  \* useState exportSettings
  enhancedImage,   \* useState enhancedImage / enhancedImageUrl
  showExportModal, \* useState showExportModal / isExportModalOpen
  error,           \* useState error
  pending,         \* Image objects whose src is set and that have not fired yet
  lastExport,      \* what the last load / error event of such an Image did
  downloads,       \* number of link.click() calls so far
  logged,          \* number of console.error calls so far
  exports,         \* number of download requests so far
  edits,           \* number of setSettings calls so far
  apiKeySet,       \* isApiKeySet of the service module
  sourceImage,     \* useState sourceImage / uploadedImageFile
  generatedImage,  \* useState generatedImage / generatedImageUrl
  isLoading,       \* useState isLoading
  isEnhancing,     \* useState isEnhancing
  calls,           \* awaited service promises that have not settled yet
  lastSettle,      \* how the last awaited promise settled
  started,         \* number of generate / enhance handler runs so far
  serviceCalls,    \* number of ai.models.generateContent calls so far
  scenePrompt,     \* useState scenePrompt
  scale,           \* ImageDisplay: useState scale
  position,        \* ImageDisplay: useState position
  isDragging,      \* ImageDisplay: useState isDragging
  startMousePos,   \* ImageDisplay: useRef startMousePos
  startImgPos,     \* ImageDisplay: useRef startImgPos
  zoomEvents       \* number of ImageDisplay events handled so far

\* state of the generate / enhance flow that the export handlers never touch
flowVars == <<apiKeySet, sourceImage, generatedImage, isLoading, isEnhancing,
              calls, lastSettle, started, serviceCalls,
              scenePrompt>>

\* state of the zoomable ImageDisplay
zoomVars == <<scale, position, isDragging, startMousePos, startImgPos,
              zoomEvents>>

\* state that only the export handlers and the settings load touch
exportVars == <<stored, pending, lastExport, downloads, logged, exports,
                edits>>

vars == <<app, stored, exportSettings, enhancedImage, showExportModal,
          error, pending, lastExport, downloads, logged, exports, edits,
          flowVars, zoomVars>>

----------------------------------------------------------------------------
(* Bounds of the model *)

\* download requests per session
MaxExports == 2
\* setSettings calls per session
MaxEdits == 1
\* generate, enhance and export handler runs per session of the flow
MaxStarts == 3
\* wheel and mouse events handled by the ImageDisplay per session
MaxZoomEvents == 4
\* largest width and height, in pixels, of the small images and custom
\* canvases the crop geometry is explored on
MaxDim == 5

----------------------------------------------------------------------------
(* JavaScript values as they come out of JSON.parse: a tag and a payload *)

JNull == <<"null">>
Undefined == <<"undefined">>
JNum(n) == <<"number", n>>
JStr(s) == <<"string", s>>
JBool(b) == <<"boolean", b>>
JObj(o) == <<"object", o>>
\* an array, with its elements as a sequence
JArr(a) == <<"array", a>>

NoProps == [k \in {} |-> JNull]

\* typeof v === 'number'
IsNumber(v) == v[1] = "number"

\* ToBoolean(v), as used by `!v` and `v || w`
Truthy(v) ==
  CASE v[1] = "number" -> v[2] # 0
    [] v[1] = "string" -> v[2] # ""
    [] v[1] = "boolean" -> v[2]
    [] v[1] = "object" -> TRUE
    [] v[1] = "array" -> TRUE
    [] OTHER -> FALSE

\* v[k] for a value that is not null/undefined
Get(v, k) ==
  IF v[1] = "object" /\ k \in DOMAIN v[2] THEN v[2][k] ELSE Undefined

\* the property names "0", "1", ..., "n-1" of a string or array of length n
IndexKeys(n) == {ToString(i - 1) : i \in 1..n}

\* the position, counted from 1, that the property name k stands for
IndexOf(k, n) == CHOOSE i \in 1..n : ToString(i - 1) = k

\* the own enumerable properties copied by `...v` inside an object literal:
\* the properties of an object, the elements of an array and the
\* characters of a string under their indices; numbers, booleans, null and
\* undefined contribute nothing
OwnProps(v) ==
  CASE v[1] = "object" -> v[2]
    [] v[1] = "array" ->
         [k \in IndexKeys(Len(v[2])) |-> v[2][IndexOf(k, Len(v[2]))]]
    [] v[1] = "string" ->
         [k \in IndexKeys(Len(v[2])) |->
            JStr(SubSeq(v[2], IndexOf(k, Len(v[2])), IndexOf(k, Len(v[2]))))]
    [] OTHER -> NoProps

\* { ...a, ...b }
Spread(a, b) ==
  [k \in (DOMAIN a) \cup (DOMAIN b) |-> IF k \in DOMAIN b THEN b[k] ELSE a[k]]

----------------------------------------------------------------------------
(* loadInitialSettings, App.tsx lines 19-70 *)

DefaultQuality == 92

defaultColorGrading ==
  [preset |-> JStr("none"), saturation |-> JNum(100), contrast |-> JNum(100),
   brightness |-> JNum(100), warmth |-> JNum(0)]

defaultResolution ==
  [preset |-> JStr("original"), width |-> JNull, height |-> JNull,
   aspectRatioLocked |-> JBool(TRUE)]

defaultSettings ==
  [format |-> JStr("jpeg"), quality |-> JNum(DefaultQuality),
   colorGrading |-> JObj(defaultColorGrading),
   resolution |-> JObj(defaultResolution)]

\* the deep merge of lines 47-58; parsed is not null
mergedSettings(parsed) ==
  LET top == Spread(defaultSettings, OwnProps(parsed))
      cg  == Get(parsed, "colorGrading")
      res == Get(parsed, "resolution")
      sub == [colorGrading |->
                JObj(Spread(defaultColorGrading,
                            IF Truthy(cg) THEN OwnProps(cg) ELSE NoProps)),
              resolution |->
                JObj(Spread(defaultResolution,
                            IF Truthy(res) THEN OwnProps(res) ELSE NoProps))]
  IN Spread(top, sub)

\* variants of the validation that skip the quality range / the format
isAcceptable_anyQuality(m) ==
  /\ m.format \in {JStr("png"), JStr("jpeg")}
  /\ IsNumber(m.quality)

isAcceptable_anyFormat(m) ==
  /\ IsNumber(m.quality) /\ m.quality[2] >= 10 /\ m.quality[2] <= 100

\* the "basic validation" of lines 61-62
isAcceptable(m) ==
  /\ m.format \in {JStr("png"), JStr("jpeg")}
  /\ IsNumber(m.quality) /\ m.quality[2] >= 10 /\ m.quality[2] <= 100

\* st is the state of the store: no entry, an empty string, a read that
\* throws, text that JSON.parse rejects, or text that parses to st.value
loadInitialSettings(st) ==
  CASE st.kind = "unreadable" -> defaultSettings      \* getItem throws
    [] st.kind = "absent" -> defaultSettings          \* getItem gives null
    [] st.kind = "empty" -> defaultSettings           \* !savedSettings
    [] st.kind = "invalid" -> defaultSettings         \* JSON.parse throws
    [] st.kind = "json" ->
         IF st.value = JNull
           THEN defaultSettings     \* parsed.colorGrading throws TypeError
           ELSE IF isAcceptable(mergedSettings(st.value))
                  THEN mergedSettings(st.value)
                  ELSE defaultSettings

\* the number of console.error calls of one run of loadInitialSettings:
\* the catch block of line 66 runs when getItem or JSON.parse throws and
\* when parsed is null
loadErrorsLogged(st) ==
  IF \/ st.kind \in {"unreadable", "invalid"}
     \/ st.kind = "json" /\ st.value = JNull
    THEN 1 ELSE 0

----------------------------------------------------------------------------
(* JavaScript numbers: IEEE 754 doubles with round-to-nearest-even          *)
(* arithmetic, computed bit for bit                                        *)

\* 2^30 and 2^15: limbs and half-limbs of a significand
Limb == 1073741824
HalfLimb == 32768

Pow2(k) == 2 ^ k

\* natural numbers below 2^120 as four limbs, least significant first
W0 == <<0, 0, 0, 0>>
W1 == <<1, 0, 0, 0>>

\* the limbs of v1 + v2 * 2^30 + v3 * 2^60 + v4 * 2^90, carries and borrows
\* moved upwards one position at a time
WCarry(v1, v2, v3, v4) ==
  LET from3(l1, l2, w3, w4) == <<l1, l2, w3 % Limb, w4 + (w3 \div Limb)>>
      from2(l1, w2, w3, w4) == from3(l1, w2 % Limb, w3 + (w2 \div Limb), w4)
  IN from2(v1 % Limb, v2 + (v1 \div Limb), v3, v4)

WAdd(x, y) == WCarry(x[1] + y[1], x[2] + y[2], x[3] + y[3], x[4] + y[4])

\* x - y for x >= y
WSub(x, y) == WCarry(x[1] - y[1], x[2] - y[2], x[3] - y[3], x[4] - y[4])

WLess(x, y) ==
  IF x[4] # y[4] THEN x[4] < y[4]
  ELSE IF x[3] # y[3] THEN x[3] < y[3]
  ELSE IF x[2] # y[2] THEN x[2] < y[2]
  ELSE x[1] < y[1]

\* limb i of x, zero outside 1..4
WLimb(x, i) == IF i \in 1..4 THEN x[i] ELSE 0

\* floor(x / 2^k), 0 <= k < 120
WShr(x, k) ==
  LET limb(i, q, r) ==
        (WLimb(x, i + q) \div Pow2(r))
        + (WLimb(x, i + q + 1) % Pow2(r)) * Pow2(30 - r)
      limbs(q, r) == <<limb(1, q, r), limb(2, q, r), limb(3, q, r),
                       limb(4, q, r)>>
  IN limbs(k \div 30, k % 30)

\* x * 2^k, 0 <= k < 120, for a product below 2^120
WShl(x, k) ==
  LET limb(i, q, r) ==
        (WLimb(x, i - q) % Pow2(30 - r)) * Pow2(r)
        + (WLimb(x, i - q - 1) \div Pow2(30 - r))
      limbs(q, r) == <<limb(1, q, r), limb(2, q, r), limb(3, q, r),
                       limb(4, q, r)>>
  IN limbs(k \div 30, k % 30)

\* number of binary digits of 0 < n < 2^30
IntBitLen(n) == CHOOSE k \in 1..30 : Pow2(k - 1) <= n /\ n < Pow2(k)

\* number of binary digits of x # 0
WBitLen(x) ==
  LET upTo(i) == 30 * (i - 1) + IntBitLen(x[i])
  IN upTo(CHOOSE i \in 1..4 : x[i] # 0 /\ \A j \in (i + 1)..4 : x[j] = 0)

\* An IEEE 754 double <<s, lo, hi, e>> is s * (lo + hi * 2^30) * 2^e with
\* s in {1, -1} and 2^52 <= lo + hi * 2^30 < 2^53; zero is <<1, 0, 0, 0>>
Zero == <<1, 0, 0, 0>>

\* round-to-nearest-even of s * (x + t) * 2^e to a double, where 0 <= t < 1
\* and sticky tells whether t # 0: x is brought to 53 binary digits, and
\* the digits cut off round it up when they exceed half a unit, or equal
\* it with a sticky rest or an odd last digit
RoundToDouble(s, x, e, sticky) ==
  LET double(q, ex) ==
        IF q[2] = Pow2(23) THEN <<s, 0, Pow2(22), ex + 1>>
        ELSE <<s, q[1], q[2], ex>>
      up(q, low, half) ==
        IF WLess(half, low) \/ (low = half /\ (sticky \/ q[1] % 2 = 1))
          THEN WAdd(q, W1) ELSE q
      cut(sh, q) == up(q, WSub(x, WShl(q, sh)), WShl(W1, sh - 1))
      digits(len) ==
        IF len <= 53 THEN double(WShl(x, 53 - len), e - (53 - len))
        ELSE double(cut(len - 53, WShr(x, len - 53)), e + (len - 53))
  IN IF x = W0 THEN Zero ELSE digits(WBitLen(x))

\* the double of an integer, which needs no rounding
FInt(n) ==
  LET exact(s, x, len) == <<s, x[1], x[2], len - 53>>
      digits(s, x, len) == exact(s, WShl(x, 53 - len), len)
      double(s, x) == digits(s, x, WBitLen(x))
  IN IF n = 0 THEN Zero
     ELSE IF n < 0 THEN double(-1, <<(-n) % Limb, (-n) \div Limb, 0, 0>>)
     ELSE double(1, <<n % Limb, n \div Limb, 0, 0>>)

FNeg(a) == IF a = Zero THEN Zero ELSE <<-a[1], a[2], a[3], a[4]>>
FAbs(a) == <<1, a[2], a[3], a[4]>>

\* the half-limbs k, k + 1, ... of the number with the column sums C, given
\* the carry into column k
RECURSIVE HalfDigits(_, _, _)
HalfDigits(C, k, carry) ==
  IF k > 8 THEN <<>>
  ELSE <<(C[k] + carry) % HalfLimb>>
       \o HalfDigits(C, k + 1, (C[k] + carry) \div HalfLimb)

\* the exact product of two significands: the products of their half-limbs
\* are summed by weight, low and high halves apart, and the carries moved
\* upwards
WMul(a, b) ==
  LET halves(m) ==
        <<m[2] % HalfLimb, m[2] \div HalfLimb,
          m[3] % HalfLimb, m[3] \div HalfLimb>>
      prod(P, Q, i, j) == IF j \in 1..4 THEN P[i] * Q[j] ELSE 0
      lo(P, Q, k) ==
        (prod(P, Q, 1, k) % HalfLimb) + (prod(P, Q, 2, k - 1) % HalfLimb)
        + (prod(P, Q, 3, k - 2) % HalfLimb)
        + (prod(P, Q, 4, k - 3) % HalfLimb)
      hi(P, Q, k) ==
        (prod(P, Q, 1, k) \div HalfLimb) + (prod(P, Q, 2, k - 1) \div HalfLimb)
        + (prod(P, Q, 3, k - 2) \div HalfLimb)
        + (prod(P, Q, 4, k - 3) \div HalfLimb)
      limbs(D) ==
        <<D[1] + HalfLimb * D[2], D[3] + HalfLimb * D[4],
          D[5] + HalfLimb * D[6], D[7] + HalfLimb * D[8]>>
      mul(P, Q) ==
        limbs(HalfDigits([k \in 1..8 |-> lo(P, Q, k) + hi(P, Q, k - 1)],
                         1, 0))
  IN mul(halves(a), halves(b))

\* a * b
FMul(a, b) ==
  IF a = Zero \/ b = Zero THEN Zero
  ELSE RoundToDouble(a[1] * b[1], WMul(a, b), a[4] + b[4], FALSE)

\* one step of restoring division by m: the next quotient bit of <<q, r>>
DivBit(qr, m) ==
  LET step(q2, r2) ==
        IF WLess(r2, m) THEN <<q2, r2>> ELSE <<WAdd(q2, W1), WSub(r2, m)>>
  IN step(WAdd(qr[1], qr[1]), WAdd(qr[2], qr[2]))

\* 5 * n more quotient bits; a zero remainder leaves only zero bits
RECURSIVE DivBits(_, _, _)
DivBits(qr, m, n) ==
  IF n = 0 \/ qr[2] = W0 THEN <<WShl(qr[1], 5 * n), qr[2]>>
  ELSE DivBits(DivBit(DivBit(DivBit(DivBit(DivBit(qr, m), m), m), m), m),
               m, n - 1)

\* a / b for b # 0: the quotient of the significands to 56 binary digits,
\* rounded with what is left over as the sticky rest
FDiv(a, b) ==
  LET quotient(ma, mb) ==
        DivBits(IF WLess(ma, mb) THEN <<W0, ma>> ELSE <<W1, WSub(ma, mb)>>,
                mb, 11)
      rounded(qr) ==
        RoundToDouble(a[1] * b[1], qr[1], a[4] - b[4] - 55, qr[2] # W0)
  IN IF a = Zero THEN Zero
     ELSE rounded(quotient(<<a[2], a[3], 0, 0>>, <<b[2], b[3], 0, 0>>))

\* a + b: the significand of the larger exponent is aligned to the smaller
\* exponent and the signed sum rounded
FAdd(a, b) ==
  LET aligned(sx, x, sy, y, e) ==
        RoundToDouble(IF sx # sy /\ WLess(x, y) THEN sy ELSE sx,
                      IF sx = sy THEN WAdd(x, y)
                      ELSE IF WLess(x, y) THEN WSub(y, x) ELSE WSub(x, y),
                      e, FALSE)
      ordered(big, small, d) ==
        IF d >= 56 THEN big
        ELSE aligned(big[1], WShl(<<big[2], big[3], 0, 0>>, d),
                     small[1], <<small[2], small[3], 0, 0>>, small[4])
  IN IF a = Zero THEN b
     ELSE IF b = Zero THEN a
     ELSE IF a[4] >= b[4] THEN ordered(a, b, a[4] - b[4])
     ELSE ordered(b, a, b[4] - a[4])

FSub(a, b) == FAdd(a, FNeg(b))

\* -1, 0 or 1
FSign(a) == IF a = Zero THEN 0 ELSE a[1]

\* |a| < |b| for a, b # 0
MagLess(a, b) ==
  IF a[4] # b[4] THEN a[4] < b[4]
  ELSE IF a[3] # b[3] THEN a[3] < b[3]
  ELSE a[2] < b[2]

\* a < b
FLess(a, b) ==
  IF FSign(a) # FSign(b) THEN FSign(a) < FSign(b)
  ELSE IF FSign(a) = 0 THEN FALSE
  ELSE IF FSign(a) = 1 THEN MagLess(a, b)
  ELSE MagLess(b, a)

FGeq(a, b) == ~FLess(a, b)
FLeq(a, b) == ~FLess(b, a)
FMin(a, b) == IF FLess(b, a) THEN b ELSE a
FMax(a, b) == IF FLess(a, b) THEN b ELSE a

\* Math.round for |a| < 2^31: the nearest integer, halves towards +infinity
MathRound(a) ==
  LET nearest(n, frac, half) ==
        IF a[1] = 1 THEN IF WLess(frac, half) THEN n ELSE n + 1
        ELSE IF WLess(half, frac) THEN -(n + 1) ELSE -n
      split(x, f, ip) ==
        nearest(ip[1] + ip[2] * Limb, WSub(x, WShl(ip, f)), WShl(W1, f - 1))
  IN IF a = Zero \/ a[4] < -119 THEN 0
     ELSE split(<<a[2], a[3], 0, 0>>, -a[4],
                WShr(<<a[2], a[3], 0, 0>>, -a[4]))

----------------------------------------------------------------------------
(* Geometry of the first App component: handleFinalDownload, lines 179-257 *)

HdLongEdge == 1920
UhdLongEdge == 3840
SquareSide == 1080
PortraitWidth == 1080
PortraitHeight == 1920
LandscapeWidth == 1920
LandscapeHeight == 1080

\* the threshold 0.01 of line 224
CropTolerance == FDiv(FInt(1), FInt(100))

\* variant that puts L on the short edge
longEdgeTarget_shortEdge(ar, L) ==
  IF FGeq(ar, FInt(1))
    THEN [targetWidth |-> FMul(FInt(L), ar), targetHeight |-> FInt(L),
          requiresCropping |-> FALSE]
    ELSE [targetWidth |-> FInt(L), targetHeight |-> FDiv(FInt(L), ar),
          requiresCropping |-> FALSE]

\* long-edge scaling of the hd / 4k cases (lines 188-194 and 197-203)
longEdgeTarget(ar, L) ==
  IF FGeq(ar, FInt(1))
    THEN [targetWidth |-> FInt(L), targetHeight |-> FDiv(FInt(L), ar),
          requiresCropping |-> FALSE]
    ELSE [targetWidth |-> FMul(FInt(L), ar), targetHeight |-> FInt(L),
          requiresCropping |-> FALSE]

\* the custom target tw x th for a source of aspect ratio ar, cropped when
\* the ratios differ by more than the tolerance (line 224)
customTarget(tw, th, ar) ==
  [targetWidth |-> tw, targetHeight |-> th,
   requiresCropping |-> FLess(CropTolerance, FAbs(FSub(FDiv(tw, th), ar)))]

\* case 'custom' of handleFinalDownload (lines 220-227)
customTargetFinal(W, H, res) ==
  customTarget(IF Truthy(res.width) THEN FInt(res.width[2]) ELSE FInt(W),
               IF Truthy(res.height) THEN FInt(res.height[2]) ELSE FInt(H),
               FDiv(FInt(W), FInt(H)))

\* fixed-size presets (lines 205-219)
fixedTarget(w, h) ==
  [targetWidth |-> FInt(w), targetHeight |-> FInt(h),
   requiresCropping |-> TRUE]

\* the switch of lines 181-232; W x H is the decoded image, res the
\* resolution object of the settings
resolveFinal(W, H, res) ==
  CASE res.preset \in {JStr("hd"), JStr("4k")} ->
         longEdgeTarget(FDiv(FInt(W), FInt(H)),
                        IF res.preset = JStr("hd") THEN HdLongEdge
                        ELSE UhdLongEdge)
    [] res.preset \in {JStr("square"), JStr("portrait"), JStr("landscape")} ->
         fixedTarget(CASE res.preset = JStr("square") -> SquareSide
                       [] res.preset = JStr("portrait") -> PortraitWidth
                       [] OTHER -> LandscapeWidth,
                     CASE res.preset = JStr("square") -> SquareSide
                       [] res.preset = JStr("portrait") -> PortraitHeight
                       [] OTHER -> LandscapeHeight)
    [] res.preset = JStr("custom") -> customTargetFinal(W, H, res)
    [] OTHER -> [targetWidth |-> FInt(W), targetHeight |-> FInt(H),
                 requiresCropping |-> FALSE]

\* lines 245-247: full height, the sides trimmed to the width sWidth
sidesTrimmed(W, H, sWidth) ==
  [sx |-> FDiv(FSub(FInt(W), sWidth), FInt(2)), sy |-> FInt(0),
   sWidth |-> sWidth, sHeight |-> FInt(H)]

\* lines 249-251: full width, top and bottom trimmed to the height sHeight
endsTrimmed(W, H, sHeight) ==
  [sx |-> FInt(0), sy |-> FDiv(FSub(FInt(H), sHeight), FInt(2)),
   sWidth |-> FInt(W), sHeight |-> sHeight]

\* variant that trims the sides when the source is the narrower of the two
cropFor_inverted(W, H, originalAspectRatio, canvasAspectRatio) ==
  IF FLess(originalAspectRatio, canvasAspectRatio)
    THEN sidesTrimmed(W, H, FMul(FInt(H), canvasAspectRatio))
  ELSE IF FLess(canvasAspectRatio, originalAspectRatio)
    THEN endsTrimmed(W, H, FDiv(FInt(W), canvasAspectRatio))
  ELSE [sx |-> FInt(0), sy |-> FInt(0),
        sWidth |-> FInt(W), sHeight |-> FInt(H)]

cropRect_inverted(W, H, cw, ch) ==
  cropFor_inverted(W, H, FDiv(FInt(W), FInt(H)), FDiv(FInt(cw), FInt(ch)))

\* variant that crops from the top-left corner instead of the centre
cropFor_topLeft(W, H, originalAspectRatio, canvasAspectRatio) ==
  IF FLess(canvasAspectRatio, originalAspectRatio)
    THEN [sx |-> FInt(0), sy |-> FInt(0),
          sWidth |-> FMul(FInt(H), canvasAspectRatio), sHeight |-> FInt(H)]
  ELSE IF FLess(originalAspectRatio, canvasAspectRatio)
    THEN [sx |-> FInt(0), sy |-> FInt(0), sWidth |-> FInt(W),
          sHeight |-> FDiv(FInt(W), canvasAspectRatio)]
  ELSE [sx |-> FInt(0), sy |-> FInt(0),
        sWidth |-> FInt(W), sHeight |-> FInt(H)]

cropRect_topLeft(W, H, cw, ch) ==
  cropFor_topLeft(W, H, FDiv(FInt(W), FInt(H)), FDiv(FInt(cw), FInt(ch)))

\* lines 244-252: the centre crop of a W x H source for the two aspect
\* ratios
cropFor(W, H, originalAspectRatio, canvasAspectRatio) ==
  IF FLess(canvasAspectRatio, originalAspectRatio)
    THEN sidesTrimmed(W, H, FMul(FInt(H), canvasAspectRatio))
  ELSE IF FLess(originalAspectRatio, canvasAspectRatio)
    THEN endsTrimmed(W, H, FDiv(FInt(W), canvasAspectRatio))
  ELSE [sx |-> FInt(0), sy |-> FInt(0),
        sWidth |-> FInt(W), sHeight |-> FInt(H)]

\* lines 240-253: the source rectangle handed to drawImage for a canvas of
\* cw x ch pixels (ch > 0 on the crop path)
cropRect(W, H, cw, ch) ==
  cropFor(W, H, FDiv(FInt(W), FInt(H)), FDiv(FInt(cw), FInt(ch)))

\* drawImage(img, 0, 0, cw, ch) samples the whole source (line 256, 478)
fullRect(W, H) ==
  [sx |-> FInt(0), sy |-> FInt(0), sWidth |-> FInt(W), sHeight |-> FInt(H)]

----------------------------------------------------------------------------
(* Geometry of the second App component: handleDownload, lines 450-470 *)

\* lines 456-463 for a source of aspect ratio ar
customDerived(W, H, res, ar) ==
  IF Truthy(res.width)
    THEN [targetWidth |-> FInt(res.width[2]),
          targetHeight |->
            IF Truthy(res.aspectRatioLocked)
              THEN FDiv(FInt(res.width[2]), ar)
            ELSE IF Truthy(res.height) THEN FInt(res.height[2])
            ELSE FInt(H)]
  ELSE IF Truthy(res.height)
    THEN [targetHeight |-> FInt(res.height[2]),
          targetWidth |->
            IF Truthy(res.aspectRatioLocked)
              THEN FMul(FInt(res.height[2]), ar)
            ELSE FInt(W)]
  ELSE [targetWidth |-> FInt(W), targetHeight |-> FInt(H)]

customTargetDownload(W, H, res) ==
  customDerived(W, H, res, FDiv(FInt(W), FInt(H)))

\* handleDownload has no crop path
uncropped(t) ==
  [targetWidth |-> t.targetWidth, targetHeight |-> t.targetHeight,
   requiresCropping |-> FALSE]

resolveDownload(W, H, res) ==
  uncropped(
    CASE res.preset = JStr("custom") -> customTargetDownload(W, H, res)
      [] res.preset \in {JStr("hd"), JStr("4k")} ->
           longEdgeTarget(FDiv(FInt(W), FInt(H)),
                          IF res.preset = JStr("hd") THEN HdLongEdge
                          ELSE UhdLongEdge)
      [] OTHER -> [targetWidth |-> FInt(W), targetHeight |-> FInt(H)])

----------------------------------------------------------------------------
(* Filter and encoding *)

\* `${n}` for a number n
Interpolate(v) == ToString(v[2])

\* variant that emits brightness before contrast
getCanvasFilter_reordered(cg) ==
  "saturate(" \o Interpolate(cg.saturation) \o "%) "
  \o "brightness(" \o Interpolate(cg.brightness) \o "%) "
  \o "contrast(" \o Interpolate(cg.contrast) \o "%) "
  \o "sepia(" \o Interpolate(cg.warmth) \o "%)"

\* getCanvasFilter (lines 72-82); the concatenation neither starts nor ends
\* with white space, so the final trim() removes nothing
getCanvasFilter(cg) ==
  "saturate(" \o Interpolate(cg.saturation) \o "%) "
  \o "contrast(" \o Interpolate(cg.contrast) \o "%) "
  \o "brightness(" \o Interpolate(cg.brightness) \o "%) "
  \o "sepia(" \o Interpolate(cg.warmth) \o "%)"

\* the template string of line 476
filterDownload(cg) ==
  "saturate(" \o Interpolate(cg.saturation) \o "%) contrast("
  \o Interpolate(cg.contrast) \o "%) brightness("
  \o Interpolate(cg.brightness) \o "%) sepia("
  \o Interpolate(cg.warmth) \o "%)"

\* variant that hands the percentage itself to the codec
encodeFinal_rawQuality(S) ==
  IF S.format = JStr("png")
    THEN [mime |-> "image/png", quality |-> Undefined,
          filename |-> "ai-fashion-photoshoot-enhanced.png"]
    ELSE [mime |-> "image/jpeg", quality |-> FInt(S.quality[2]),
          filename |-> "ai-fashion-photoshoot-enhanced.jpeg"]

\* lines 259-269
encodeFinal(S) ==
  IF S.format = JStr("png")
    THEN [mime |-> "image/png", quality |-> Undefined,
          filename |-> "ai-fashion-photoshoot-enhanced.png"]
    ELSE [mime |-> "image/jpeg", quality |-> FDiv(FInt(S.quality[2]), FInt(100)),
          filename |-> "ai-fashion-photoshoot-enhanced.jpeg"]

\* lines 481-482
encodeDownload(S) ==
  [mime |-> "image/" \o S.format[2],
   quality |-> IF S.format = JStr("jpeg") THEN FDiv(FInt(S.quality[2]), FInt(100))
               ELSE Undefined,
   filename |-> "ai-fashion-studio." \o S.format[2]]

----------------------------------------------------------------------------
(* Inputs: settings the export modal can produce, images the enhancement   *)
(* service can return                                                      *)

Res(p, w, h, l) ==
  JObj([preset |-> JStr(p), width |-> w, height |-> h,
        aspectRatioLocked |-> JBool(l)])

PresetNames == {"original", "hd", "4k", "square", "portrait", "landscape"}

ResolutionChoices ==
  {Res(p, JNull, JNull, TRUE) : p \in PresetNames}
  \cup {Res("custom", JNum(800), JNull, TRUE),
        Res("custom", JNull, JNum(800), TRUE),
        Res("custom", JNum(800), JNum(600), TRUE),
        Res("custom", JNum(1000), JNum(1000), FALSE),
        Res("custom", JNum(1500), JNum(1000), FALSE),
        Res("custom", JNum(800), JNum(533), FALSE),
        Res("custom", JNum(0), JNull, FALSE)}

GradedColors ==
  JObj([preset |-> JStr("vivid"), saturation |-> JNum(130),
        contrast |-> JNum(110), brightness |-> JNum(105),
        warmth |-> JNum(20)])

\* settings records as the export modal hands them to setSettings
SettingsChoices ==
  {[defaultSettings EXCEPT !.resolution = r] : r \in ResolutionChoices}
  \cup {[defaultSettings EXCEPT !.format = JStr("png")],
        [defaultSettings EXCEPT !.quality = JNum(10)],
        [defaultSettings EXCEPT !.colorGrading = GradedColors,
                                !.format = JStr("png")]}

\* `data:${mimeType};base64,${bytes}`, part_000 lines 74 and 143
DataUri(mimeType, bytes) == "data:" \o mimeType \o ";base64," \o bytes

\* data URIs the enhancement service can return, with what decoding them
\* gives (ok = FALSE: the host fires the error event instead of load)
Images ==
  {[url |-> DataUri("image/png", "4000x3000"), ok |-> TRUE,
    width |-> 4000, height |-> 3000],
   [url |-> DataUri("image/png", "1000x2000"), ok |-> TRUE,
    width |-> 1000, height |-> 2000],
   [url |-> DataUri("image/png", "3000x2000"), ok |-> TRUE,
    width |-> 3000, height |-> 2000],
   [url |-> DataUri("image/png", "1080x1080"), ok |-> TRUE,
    width |-> 1080, height |-> 1080],
   [url |-> DataUri("image/png", "333x1280"), ok |-> TRUE,
    width |-> 333, height |-> 1280],
   [url |-> DataUri("image/png", "4000x1"), ok |-> TRUE,
    width |-> 4000, height |-> 1],
   [url |-> DataUri("image/png", "corrupt"), ok |-> FALSE,
    width |-> 0, height |-> 0]}

\* the data URI of a w x h image
Url(w, h) == DataUri("image/png", ToString(w) \o "x" \o ToString(h))

\* every image of at most MaxDim x MaxDim pixels
SmallImages ==
  {[url |-> Url(w, h), ok |-> TRUE, width |-> w, height |-> h] :
     w \in 1..MaxDim, h \in 1..MaxDim}

Decode(url) ==
  IF \E i \in Images : i.url = url
    THEN CHOOSE i \in Images : i.url = url
    ELSE CHOOSE i \in SmallImages : i.url = url

\* what a previous session may have left in the store
StoredForExport ==
  {[kind |-> "absent"],
   [kind |-> "json",
    value |-> JObj([defaultSettings EXCEPT
                      !.resolution = Res("square", JNull, JNull, TRUE)])],
   [kind |-> "json", value |-> JObj([format |-> JStr("bmp")])]}

----------------------------------------------------------------------------
(* The second App component's initial settings, lines 354-370 *)

InitialQuality == 95

initialExportSettings ==
  [defaultSettings EXCEPT !.quality = JNum(InitialQuality)]

----------------------------------------------------------------------------
(* Export pipeline: state machine *)

NoExport == [outcome |-> "none"]

\* no awaited promise has settled yet
NoSettle ==
  [kind |-> "none", ok |-> TRUE, occurred |-> "", shown |-> "", n |-> 0]

\* line 88
DefaultPrompt ==
  "A woman standing confidently on a balcony overlooking the sea at sunset."

\* the image bytes the generation model answers with for a source file
GeneratedFrom(file) == "scene-of-" \o file

\* useState initial values of the generate / enhance flow, lines 86-93 and
\* 373-380
FlowConstructed ==
  /\ sourceImage = JNull
  /\ generatedImage = JNull
  /\ isLoading = FALSE
  /\ isEnhancing = FALSE
  /\ calls = <<>>
  /\ lastSettle = NoSettle
  /\ started = 0
  /\ serviceCalls = 0

\* the flow state in which a first enhancement has just succeeded
FlowAfterEnhance ==
  /\ apiKeySet = TRUE
  /\ sourceImage = JStr("fileA")
  /\ generatedImage = JStr(DataUri("image/png", GeneratedFrom("fileA")))
  /\ scenePrompt = "runway"
  /\ isLoading = FALSE
  /\ isEnhancing = FALSE
  /\ calls = <<>>
  /\ lastSettle = [kind |-> "enhance", ok |-> TRUE, occurred |-> "",
                   shown |-> "", n |-> 2]
  /\ started = 2
  /\ serviceCalls = 2

\* useState / useRef initial values of ImageDisplay, part_001 lines 17-23
ZoomAtRest ==
  /\ scale = FInt(1)
  /\ position = [x |-> FInt(0), y |-> FInt(0)]
  /\ isDragging = FALSE
  /\ startMousePos = [x |-> 0, y |-> 0]
  /\ startImgPos = [x |-> FInt(0), y |-> FInt(0)]
  /\ zoomEvents = 0

\* the export modal has just been opened by a successful enhancement
\* (handleEnhance lines 146-147, handleEnhanceClick lines 430-432)
InitExport ==
  /\ app \in {"App1", "App2"}
  /\ stored \in StoredForExport
  /\ exportSettings =
       IF app = "App1" THEN loadInitialSettings(stored)
       ELSE initialExportSettings
  /\ enhancedImage \in {JStr(i.url) : i \in Images}
  /\ showExportModal = TRUE
  /\ error = JNull
  /\ pending = <<>>
  /\ lastExport = NoExport
  /\ downloads = 0
  /\ logged = 0
  /\ exports = 0
  /\ edits = 0
  /\ FlowAfterEnhance
  /\ ZoomAtRest

\* setSettings={setExportSettings}, lines 337 and 554
setSettings(s) ==
  /\ showExportModal
  /\ edits < MaxEdits
  /\ exportSettings' = s
  /\ edits' = edits + 1
  /\ UNCHANGED <<app, stored, enhancedImage, showExportModal, error, pending,
                 lastExport, downloads, logged, exports>>
  /\ UNCHANGED <<flowVars, zoomVars>>

\* onClose, lines 333 and 550
onClose ==
  /\ showExportModal
  /\ showExportModal' = FALSE
  /\ UNCHANGED <<app, stored, exportSettings, enhancedImage, error, pending,
                 lastExport, downloads, logged, exports, edits>>
  /\ UNCHANGED <<flowVars, zoomVars>>

\* a new Image() whose src has been set, with the state its callbacks
\* closed over
Request(h) ==
  [handler |-> h, src |-> enhancedImage[2], settings |-> exportSettings]

\* variant in which a failed save ends the attempt with an error
handleFinalDownload_abortOnSaveFailure(saved) ==
  /\ app = "App1"
  /\ showExportModal
  /\ exports < MaxExports
  /\ exports' = exports + 1
  /\ IF ~Truthy(enhancedImage)
       THEN /\ error' = JStr("No enhanced image available to download.")
            /\ UNCHANGED <<stored, logged, pending>>
       ELSE IF saved
              THEN /\ stored' = [kind |-> "json",
                                 value |-> JObj(exportSettings)]
                   /\ pending' = Append(pending,
                                        Request("handleFinalDownload"))
                   /\ UNCHANGED <<logged, error>>
              ELSE /\ logged' = logged + 1
                   /\ error' = JStr("Failed to save export settings.")
                   /\ UNCHANGED <<stored, pending>>
  /\ UNCHANGED <<app, exportSettings, enhancedImage, showExportModal,
                 lastExport, downloads, edits>>
  /\ UNCHANGED <<flowVars, zoomVars>>

\* handleFinalDownload up to img.src = enhancedImage (lines 156-169, 278);
\* saved tells whether localStorage.setItem returned or threw
handleFinalDownload(saved) ==
  /\ app = "App1"
  /\ showExportModal
  /\ exports < MaxExports
  /\ exports' = exports + 1
  /\ IF ~Truthy(enhancedImage)
       THEN /\ error' = JStr("No enhanced image available to download.")
            /\ UNCHANGED <<stored, logged, pending>>
       ELSE /\ IF saved
                 THEN /\ stored' = [kind |-> "json",
                                    value |-> JObj(exportSettings)]
                      /\ UNCHANGED logged
                 ELSE /\ logged' = logged + 1
                      /\ UNCHANGED stored
            /\ pending' = Append(pending, Request("handleFinalDownload"))
            /\ UNCHANGED error
  /\ UNCHANGED <<app, exportSettings, enhancedImage, showExportModal,
                 lastExport, downloads, edits>>
  /\ UNCHANGED <<flowVars, zoomVars>>

\* handleDownload up to img.src = enhancedImageUrl (lines 440-444, 489)
handleDownload ==
  /\ app = "App2"
  /\ showExportModal
  /\ exports < MaxExports
  /\ exports' = exports + 1
  /\ IF ~Truthy(enhancedImage)
       THEN UNCHANGED pending
       ELSE pending' = Append(pending, Request("handleDownload"))
  /\ UNCHANGED <<app, stored, exportSettings, enhancedImage, showExportModal,
                 error, lastExport, downloads, logged, edits>>
  /\ UNCHANGED <<flowVars, zoomVars>>

Remove(seq, i) == SubSeq(seq, 1, i - 1) \o SubSeq(seq, i + 1, Len(seq))

\* canvas.width / canvas.height (lines 234-235, 472-473)
canvasOf(t) ==
  [width |-> MathRound(t.targetWidth), height |-> MathRound(t.targetHeight)]

\* lines 234-271 for the resolved target t and its canvas
drawnFinal(W, H, S, t, canvas) ==
  [outcome |-> "downloaded", handler |-> "handleFinalDownload",
   width |-> W, height |-> H, settings |-> S,
   targetWidth |-> t.targetWidth, targetHeight |-> t.targetHeight,
   requiresCropping |-> t.requiresCropping,
   canvas |-> canvas,
   filter |-> getCanvasFilter(S.colorGrading[2]),
   source |-> IF t.requiresCropping
                THEN cropRect(W, H, canvas.width, canvas.height)
                ELSE fullRect(W, H),
   encode |-> encodeFinal(S),
   steps |-> <<"canvas.width", "canvas.height", "ctx.filter",
               "ctx.drawImage", "canvas.toDataURL", "link.click">>]

\* lines 234-271 for the resolved target t
rasterFinal(W, H, S, t) == drawnFinal(W, H, S, t, canvasOf(t))

\* lines 179-271: what img.onload of handleFinalDownload rasterizes and
\* downloads for a decoded W x H image under the settings S
renderFinal(W, H, S) ==
  rasterFinal(W, H, S, resolveFinal(W, H, S.resolution[2]))

\* lines 472-485 for the resolved target t
rasterDownload(W, H, S, t) ==
  [outcome |-> "downloaded", handler |-> "handleDownload",
   width |-> W, height |-> H, settings |-> S,
   targetWidth |-> t.targetWidth, targetHeight |-> t.targetHeight,
   requiresCropping |-> t.requiresCropping,
   canvas |-> canvasOf(t),
   filter |-> filterDownload(S.colorGrading[2]),
   source |-> fullRect(W, H),
   encode |-> encodeDownload(S),
   steps |-> <<"canvas.width", "canvas.height", "ctx.filter",
               "ctx.drawImage", "canvas.toDataURL", "link.click">>]

\* lines 450-485: the same for img.onload of handleDownload
renderDownload(W, H, S) ==
  rasterDownload(W, H, S, resolveDownload(W, H, S.resolution[2]))

\* a fixed preset or an unlocked custom size of at most MaxDim x MaxDim
CropSettings ==
  {[defaultSettings EXCEPT !.resolution = Res(p, JNull, JNull, TRUE)] :
     p \in {"square", "portrait", "landscape"}}
  \cup {[defaultSettings EXCEPT
           !.resolution = Res("custom", JNum(w), JNum(h), FALSE)] :
          w \in 1..MaxDim, h \in 1..MaxDim}

\* the settings an export of the model can be requested with: those the
\* component is constructed with and those the modal hands to setSettings
ExportableSettings ==
  {loadInitialSettings(st) : st \in StoredForExport}
  \cup {initialExportSettings} \cup SettingsChoices

\* the decoded images and settings the onload callbacks of the model run
\* on: any image the service returns with any exportable settings, and any
\* small image with any crop settings
RenderInputs ==
  {<<i, S>> : i \in {j \in Images : j.ok}, S \in ExportableSettings}
  \cup {<<i, S>> : i \in SmallImages, S \in CropSettings}

\* renderFinal and renderDownload on these inputs, computed once
finalRenders ==
  [p \in RenderInputs |-> renderFinal(p[1].width, p[1].height, p[2])]

downloadRenders ==
  [p \in RenderInputs |-> renderDownload(p[1].width, p[1].height, p[2])]

\* the body of img.onload for the decoded image i and the settings S
drawFinal(i, S) == finalRenders[<<i, S>>]

drawDownload(i, S) == downloadRenders[<<i, S>>]

\* every rasterization the model can reach
Renders ==
  {finalRenders[p] : p \in RenderInputs}
  \cup {downloadRenders[p] : p \in RenderInputs}

\* what a failed attempt leaves behind
Failed(r, why) ==
  [outcome |-> why, handler |-> r.handler, settings |-> r.settings]

\* img.onload of handleFinalDownload, lines 170-273; ctx tells whether
\* canvas.getContext('2d') returned a context
onloadFinal(i, ctx) ==
  /\ i \in DOMAIN pending
  /\ pending[i].handler = "handleFinalDownload"
  /\ Decode(pending[i].src).ok
  /\ pending' = Remove(pending, i)
  /\ showExportModal' = FALSE
  /\ IF ctx
       THEN /\ lastExport' = drawFinal(Decode(pending[i].src),
                                       pending[i].settings)
            /\ downloads' = downloads + 1
            /\ UNCHANGED error
       ELSE /\ lastExport' = Failed(pending[i], "noContext")
            /\ error' = JStr("Could not process image for download.")
            /\ UNCHANGED downloads
  /\ UNCHANGED <<app, stored, exportSettings, enhancedImage, logged, exports,
                 edits>>
  /\ UNCHANGED <<flowVars, zoomVars>>

\* img.onerror of handleFinalDownload, lines 274-277
onerrorFinal(i) ==
  /\ i \in DOMAIN pending
  /\ pending[i].handler = "handleFinalDownload"
  /\ ~Decode(pending[i].src).ok
  /\ pending' = Remove(pending, i)
  /\ lastExport' = Failed(pending[i], "decodeError")
  /\ error' = JStr("Failed to load enhanced image for conversion.")
  /\ showExportModal' = FALSE
  /\ UNCHANGED <<app, stored, exportSettings, enhancedImage, downloads,
                 logged, exports, edits>>
  /\ UNCHANGED <<flowVars, zoomVars>>

\* img.onload of handleDownload, lines 445-488
onloadDownload(i, ctx) ==
  /\ i \in DOMAIN pending
  /\ pending[i].handler = "handleDownload"
  /\ Decode(pending[i].src).ok
  /\ pending' = Remove(pending, i)
  /\ IF ctx
       THEN /\ lastExport' = drawDownload(Decode(pending[i].src),
                                          pending[i].settings)
            /\ downloads' = downloads + 1
            /\ showExportModal' = FALSE
       ELSE /\ lastExport' = Failed(pending[i], "noContext")
            /\ UNCHANGED <<downloads, showExportModal>>
  /\ UNCHANGED <<app, stored, exportSettings, enhancedImage, error, logged,
                 exports, edits>>
  /\ UNCHANGED <<flowVars, zoomVars>>

\* the error event of the Image created by handleDownload: no onerror is
\* installed (lines 443-489), so nothing but the event happens
errorEventDownload(i) ==
  /\ i \in DOMAIN pending
  /\ pending[i].handler = "handleDownload"
  /\ ~Decode(pending[i].src).ok
  /\ pending' = Remove(pending, i)
  /\ lastExport' = Failed(pending[i], "decodeError")
  /\ UNCHANGED <<app, stored, exportSettings, enhancedImage, showExportModal,
                 error, downloads, logged, exports, edits>>
  /\ UNCHANGED <<flowVars, zoomVars>>

NextExport ==
  \/ \E s \in SettingsChoices : setSettings(s)
  \/ onClose
  \/ \E saved \in BOOLEAN : handleFinalDownload(saved)
  \/ handleDownload
  \/ \E i \in 1..MaxExports, ctx \in BOOLEAN : onloadFinal(i, ctx)
  \/ \E i \in 1..MaxExports : onerrorFinal(i)
  \/ \E i \in 1..MaxExports, ctx \in BOOLEAN : onloadDownload(i, ctx)
  \/ \E i \in 1..MaxExports : errorEventDownload(i)

SpecExport == InitExport /\ [][NextExport]_vars

----------------------------------------------------------------------------
(* Mounting the App: useState(loadInitialSettings), line 97, and           *)
(* useState(initialExportSettings), line 382                               *)

\* an object literal without the properties whose value is undefined
Prune(o) == [k \in {j \in DOMAIN o : o[j] # Undefined} |-> o[k]]

FormatOpts ==
  {Undefined, JStr("png"), JStr("jpeg"), JStr("bmp"), JNum(1)}

QualityOpts ==
  {Undefined, JNum(5), JNum(10), JNum(50), JNum(100), JNum(101),
   JStr("high"), JNull}

ColorOpts ==
  {Undefined, JNull, GradedColors, JObj([saturation |-> JNum(150)]), JNum(3),
   JStr("vivid")}

ResOpts ==
  {Undefined, Res("hd", JNull, JNull, TRUE),
   JObj([preset |-> JStr("square")]), JObj([preset |-> JStr("poster")]),
   JArr(<<JStr("hd")>>)}

\* what localStorage can hold under SETTINGS_STORAGE_KEY
AllStored ==
  {[kind |-> k] : k \in {"absent", "empty", "unreadable", "invalid"}}
  \cup {[kind |-> "json", value |-> v] :
          v \in {JNull, JNum(7), JStr("png"), JStr(""),
                 JArr(<<JStr("jpeg"), JNum(50)>>)}}
  \cup {[kind |-> "json",
         value |-> JObj(Prune([format |-> f, quality |-> q,
                               colorGrading |-> c, resolution |-> r]))] :
          f \in FormatOpts, q \in QualityOpts, c \in ColorOpts, r \in ResOpts}

InitLoad ==
  /\ app = "unmounted"
  /\ stored \in AllStored
  /\ exportSettings = Undefined
  /\ enhancedImage = JNull
  /\ showExportModal = FALSE
  /\ error = JNull
  /\ pending = <<>>
  /\ lastExport = NoExport
  /\ downloads = 0
  /\ logged = 0
  /\ exports = 0
  /\ edits = 0
  /\ apiKeySet = TRUE
  /\ FlowConstructed
  /\ scenePrompt = ""
  /\ ZoomAtRest

mountApp1 ==
  /\ app = "unmounted"
  /\ app' = "App1"
  /\ exportSettings' = loadInitialSettings(stored)
  /\ logged' = logged + loadErrorsLogged(stored)
  /\ scenePrompt' = DefaultPrompt
  /\ UNCHANGED <<stored, enhancedImage, showExportModal, error, pending,
                 lastExport, downloads, exports, edits>>
  /\ UNCHANGED <<apiKeySet, sourceImage, generatedImage, isLoading,
                 isEnhancing, calls, lastSettle, started,
                 serviceCalls, zoomVars>>

mountApp2 ==
  /\ app = "unmounted"
  /\ app' = "App2"
  /\ exportSettings' = initialExportSettings
  /\ scenePrompt' = ""
  /\ UNCHANGED <<stored, enhancedImage, showExportModal, error, pending,
                 lastExport, downloads, logged, exports, edits>>
  /\ UNCHANGED <<apiKeySet, sourceImage, generatedImage, isLoading,
                 isEnhancing, calls, lastSettle, started,
                 serviceCalls, zoomVars>>

NextLoad == mountApp1 \/ mountApp2

SpecLoad == InitLoad /\ [][NextLoad]_vars

----------------------------------------------------------------------------
(* Properties of the settings load *)

\* the persisted record, when the store holds JSON text of an object
StoredObject == stored.kind = "json" /\ stored.value[1] = "object"

StoredHas(k) == StoredObject /\ k \in DOMAIN stored.value[2]

\* the persisted quality is present and is not a number within [10,100]
StoredQualityBad ==
  /\ StoredHas("quality")
  /\ LET q == stored.value[2].quality
     IN ~(q[1] = "number" /\ q[2] >= 10 /\ q[2] <= 100)

\* the persisted format is present and is neither png nor jpeg
StoredFormatBad ==
  /\ StoredHas("format")
  /\ stored.value[2].format \notin {JStr("png"), JStr("jpeg")}

\* C9: the settings returned by loadInitialSettings always carry a numeric
\* quality within [10,100], and a persisted quality that is out of range or
\* not a number is replaced by the default quality.
Thm_C9_LoadedQualityInRange ==
  app = "App1" =>
    /\ exportSettings.quality[1] = "number"
    /\ exportSettings.quality[2] >= 10
    /\ exportSettings.quality[2] <= 100
    /\ (StoredQualityBad => exportSettings.quality = JNum(DefaultQuality))

Wit_C9_OutOfRangeRejected ==
  /\ app = "App1"
  /\ StoredHas("quality")
  /\ stored.value[2].quality = JNum(101)
  /\ exportSettings.quality = JNum(DefaultQuality)

\* C10: loadInitialSettings returns exactly the hardcoded defaults when the
\* store has no entry, reading or parsing throws, or the merged record fails
\* the acceptance check; no saved field survives in those cases.
Thm_C10_FailedLoadGivesDefaults ==
  (/\ app = "App1"
   /\ \/ stored.kind \in {"absent", "empty", "unreadable", "invalid"}
      \/ stored.kind = "json" /\ stored.value = JNull
      \/ StoredFormatBad
      \/ StoredQualityBad)
  => exportSettings = defaultSettings

Wit_C10_BmpDropsValidFields ==
  /\ app = "App1"
  /\ StoredHas("format") /\ stored.value[2].format = JStr("bmp")
  /\ StoredHas("colorGrading") /\ stored.value[2].colorGrading = GradedColors
  /\ StoredHas("resolution")
  /\ stored.value[2].resolution = Res("hd", JNull, JNull, TRUE)
  /\ ~StoredHas("quality")
  /\ exportSettings = defaultSettings

----------------------------------------------------------------------------
(* Properties of the export pipeline *)

\* the last Image event ran the pipeline through to link.click()
Exported == lastExport.outcome = "downloaded"

ExportedPreset(p) ==
  Exported /\ lastExport.settings.resolution[2].preset = JStr(p)

ExportedRes == lastExport.settings.resolution[2]

Max(a, b) == IF a >= b THEN a ELSE b

\* 1e-6, the floating tolerance the specification allows an aspect ratio
RatioTolerance == FDiv(FInt(1), FInt(1000000))

\* |a - b| <= 1e-6, as JavaScript evaluates it
Near(a, b) == FLeq(FAbs(FSub(a, b)), RatioTolerance)

\* C1: with preset square, portrait or landscape every export, by either
\* handler, takes the crop path and draws on a canvas of exactly 1080x1080,
\* 1080x1920 or 1920x1080.
Cex_C1_FixedPresetsAlwaysCrop ==
  /\ ExportedPreset("square") =>
       /\ lastExport.requiresCropping
       /\ lastExport.canvas = [width |-> 1080, height |-> 1080]
  /\ ExportedPreset("portrait") =>
       /\ lastExport.requiresCropping
       /\ lastExport.canvas = [width |-> 1080, height |-> 1920]
  /\ ExportedPreset("landscape") =>
       /\ lastExport.requiresCropping
       /\ lastExport.canvas = [width |-> 1920, height |-> 1080]

\* what C2 says of a rasterization r with long edge L apart from the aspect
\* ratio: no crop is required, the whole source is drawn, the long edge L
\* lies on the width when W >= H and on the height when W < H, and the
\* larger canvas side is L
LongEdgePlaced(r, L) ==
  /\ ~r.requiresCropping
  /\ r.source = fullRect(r.width, r.height)
  /\ (r.width >= r.height => r.targetWidth = FInt(L))
  /\ (r.width < r.height => r.targetHeight = FInt(L))
  /\ Max(r.canvas.width, r.canvas.height) = L

\* targetWidth * H = targetHeight * W, as JavaScript evaluates it
ExactlyProportional(r) ==
  FMul(r.targetWidth, FInt(r.height)) = FMul(r.targetHeight, FInt(r.width))

\* |targetWidth / targetHeight - W / H| <= 1e-6
ProportionalWithinTolerance(r) ==
  Near(FDiv(r.targetWidth, r.targetHeight),
       FDiv(FInt(r.width), FInt(r.height)))

\* C2 as stated: with preset hd (L = 1920) or 4k (L = 3840) no crop is
\* required, the whole source is drawn, the unrounded target has exactly
\* the source aspect ratio (targetWidth * H = targetHeight * W), the long
\* edge L lies on the width when W >= H and on the height when W < H, and
\* the larger canvas side is L.
Cex_C2_TargetExactlyProportional ==
  /\ ExportedPreset("hd") =>
       LongEdgePlaced(lastExport, 1920) /\ ExactlyProportional(lastExport)
  /\ ExportedPreset("4k") =>
       LongEdgePlaced(lastExport, 3840) /\ ExactlyProportional(lastExport)

LongEdgeRule(r) ==
  LET preset == r.settings.resolution[2].preset
  IN /\ preset = JStr("hd") =>
          LongEdgePlaced(r, 1920) /\ ProportionalWithinTolerance(r)
     /\ preset = JStr("4k") =>
          LongEdgePlaced(r, 3840) /\ ProportionalWithinTolerance(r)

\* the rasterizations of the model that obey the long-edge rule
LongEdgeRenders == {r \in Renders : LongEdgeRule(r)}

\* C2 as amended: with preset hd (L = 1920) or 4k (L = 3840) no crop is
\* required, the whole source is drawn, the unrounded target has the source
\* aspect ratio within the floating tolerance 1e-6, the long edge L lies on
\* the width when W >= H and on the height when W < H, and the larger
\* canvas side is L.
Thm_C2_LongEdgePresets ==
  Exported => lastExport \in LongEdgeRenders

\* a 333x1280 source exported as hd: the target width 1920 * (333/1280)
\* comes out as 499.49999999999994 and is rounded to 499 pixels
Wit_C2_NarrowPortraitHd ==
  /\ ExportedPreset("hd")
  /\ lastExport.width = 333 /\ lastExport.height = 1280
  /\ lastExport.canvas = [width |-> 499, height |-> 1920]
  /\ FLess(lastExport.targetWidth, FDiv(FInt(999), FInt(2)))
  /\ ~lastExport.requiresCropping

\* the centre crop of a W x H source for a canvas of TW x TH pixels, with
\* the products and quotients rounded as JavaScript rounds them:
\* full height and width H*(TW/TH) when the source is relatively wider,
\* full width and height W/(TW/TH) when it is relatively taller, the whole
\* source when the ratios are equal; sx = (W - sWidth)/2, sy = (H - sHeight)/2
CenterCropRule(r) ==
  LET W == r.width
      H == r.height
      TW == r.canvas.width
      TH == r.canvas.height
      ratio == FDiv(FInt(TW), FInt(TH))
      c == r.source
  IN /\ TW >= 1 /\ TH >= 1
     /\ (W * TH > TW * H =>
           /\ c.sHeight = FInt(H)
           /\ c.sWidth = FMul(FInt(H), ratio)
           /\ c.sy = FInt(0))
     /\ (W * TH < TW * H =>
           /\ c.sWidth = FInt(W)
           /\ c.sHeight = FDiv(FInt(W), ratio)
           /\ c.sx = FInt(0))
     /\ (W * TH = TW * H =>
           /\ c.sx = FInt(0) /\ c.sy = FInt(0)
           /\ c.sWidth = FInt(W) /\ c.sHeight = FInt(H))
     /\ c.sx = FDiv(FSub(FInt(W), c.sWidth), FInt(2))
     /\ c.sy = FDiv(FSub(FInt(H), c.sHeight), FInt(2))

\* the rasterizations of the model that sample the centre crop
CenterCropRenders ==
  {r \in Renders : r.requiresCropping => CenterCropRule(r)}

\* C3: on the crop path the sampled source rectangle is the centre crop for
\* the canvas aspect ratio: full height and width H*TW/TH when the source is
\* relatively wider, full width and height W*TH/TW when it is relatively
\* taller, the whole source when the ratios are equal; in every case
\* sx = (W - sWidth)/2 and sy = (H - sHeight)/2.
Thm_C3_CenterCrop ==
  Exported => lastExport \in CenterCropRenders

Wit_C3_LandscapeToSquare ==
  /\ ExportedPreset("square")
  /\ lastExport.requiresCropping
  /\ lastExport.width = 4000 /\ lastExport.height = 3000
  /\ lastExport.source =
       [sx |-> FInt(500), sy |-> FInt(0),
        sWidth |-> FInt(3000), sHeight |-> FInt(3000)]

\* C4: with preset custom and aspectRatioLocked, in either handler: a given
\* width fixes targetHeight = width * H / W (also when a height is given),
\* a height given alone fixes targetWidth = height * W / H, and no crop is
\* required; the quotients are compared within the tolerance 1e-6.
Cex_C4_LockedCustomDerives ==
  (ExportedPreset("custom") /\ ExportedRes.aspectRatioLocked = JBool(TRUE)) =>
    LET W == lastExport.width
        H == lastExport.height
        w == ExportedRes.width
        h == ExportedRes.height
        tw == lastExport.targetWidth
        th == lastExport.targetHeight
    IN /\ (Truthy(w) =>
             /\ tw = FInt(w[2])
             /\ Near(th, FDiv(FMul(FInt(w[2]), FInt(H)), FInt(W))))
       /\ (~Truthy(w) /\ Truthy(h) =>
             /\ th = FInt(h[2])
             /\ Near(tw, FDiv(FMul(FInt(h[2]), FInt(W)), FInt(H))))
       /\ ~lastExport.requiresCropping

\* C5: with preset custom, aspectRatioLocked false and both width and
\* height given, the target is exactly width x height and the export
\* samples the centre-crop rectangle if |width/height - W/H| > 0.01 and
\* the whole source otherwise.
Cex_C5_UnlockedCustomCropsIffRatioDiffers ==
  (/\ ExportedPreset("custom")
   /\ ExportedRes.aspectRatioLocked = JBool(FALSE)
   /\ Truthy(ExportedRes.width) /\ Truthy(ExportedRes.height)) =>
    LET W == lastExport.width
        H == lastExport.height
        w == ExportedRes.width[2]
        h == ExportedRes.height[2]
        differs == FLess(CropTolerance,
                         FAbs(FSub(FDiv(FInt(w), FInt(h)),
                                   FDiv(FInt(W), FInt(H)))))
        c == lastExport.source
    IN /\ lastExport.targetWidth = FInt(w)
       /\ lastExport.targetHeight = FInt(h)
       /\ lastExport.canvas = [width |-> w, height |-> h]
       /\ (differs => CenterCropRule(lastExport))
       /\ (~differs => c = fullRect(W, H))

\* C6: every export that reaches the draw/encode step has a canvas of at
\* least 1x1 pixels.
Cex_C6_CanvasAtLeastOneByOne ==
  Exported => lastExport.canvas.width >= 1 /\ lastExport.canvas.height >= 1

\* C7: an attempt that ends because the image failed to decode or no 2D
\* context was available leaves a user-facing error message, in either
\* handler.
Cex_C7_FailuresSurfaceAnError ==
  lastExport.outcome \in {"decodeError", "noContext"} => error # JNull

\* C8: at most one export pipeline is in flight at any time.
Cex_C8_AtMostOneExportInFlight == Len(pending) <= 1

----------------------------------------------------------------------------
(* Properties of the settings merge *)

\* the properties the saved value under key k contributes to the merge: those
\* of an object, the elements of an array and the characters of a string
\* under "0", "1", ..., and none when the value is missing, null, a number
\* or a boolean
SavedSub(k) ==
  IF ~StoredHas(k) THEN NoProps
  ELSE LET v == stored.value[2][k]
       IN CASE v[1] = "object" -> v[2]
            [] v[1] = "array" ->
                 [i \in {ToString(j) : j \in 0..(Len(v[2]) - 1)} |->
                    LET n == CHOOSE j \in 1..Len(v[2]) : ToString(j - 1) = i
                    IN v[2][n]]
            [] v[1] = "string" ->
                 [i \in {ToString(j) : j \in 0..(Len(v[2]) - 1)} |->
                    LET n == CHOOSE j \in 1..Len(v[2]) : ToString(j - 1) = i
                    IN JStr(SubSeq(v[2], n, n))]
            [] OTHER -> NoProps

\* the saved value under top-level key k is present and well-formed
SavedWellFormed(k) ==
  /\ StoredHas(k)
  /\ LET v == stored.value[2][k]
     IN CASE k = "format" -> v \in {JStr("png"), JStr("jpeg")}
          [] k = "quality" -> v[1] = "number" /\ v[2] >= 10 /\ v[2] <= 100
          [] OTHER -> v[1] = "object"

\* the saved resolution preset is present and is one of the enum's names
SavedPresetWellFormed ==
  /\ "preset" \in DOMAIN SavedSub("resolution")
  /\ SavedSub("resolution").preset \in
       {JStr(p) : p \in PresetNames \cup {"custom"}}

\* C11: every missing or malformed field takes its default and every other
\* well-formed saved field keeps its saved value.
Cex_C11_FieldByFieldFallback ==
  (app = "App1" /\ StoredObject) =>
    /\ \A k \in {"format", "quality"} :
         exportSettings[k] = IF SavedWellFormed(k) THEN stored.value[2][k]
                             ELSE defaultSettings[k]
    /\ exportSettings.resolution[2].preset =
         IF SavedPresetWellFormed THEN SavedSub("resolution").preset
         ELSE defaultResolution.preset

\* ------------------------------------------------------------------
\* Properties of saving, filtering and encoding on export
\* ------------------------------------------------------------------

\* a step in which a download handler ran with an enhanced image present
DownloadRequested == exports' = exports + 1 /\ Truthy(enhancedImage)

\* the settings in force were written to storage by this step
SavedNow ==
  /\ stored'.kind = "json"
  /\ stored'.value = JObj(exportSettings)
  /\ logged' = logged

\* the write threw: storage is as it was and the failure was logged
SaveFailedNow == stored' = stored /\ logged' = logged + 1

\* C13 as stated: every download with an enhanced image present attempts
\* to persist the current export settings, and a failing save is logged
\* without an error reaching the user
Cex_C13_EveryDownloadSaves ==
  [][DownloadRequested => (SavedNow \/ SaveFailedNow) /\ error' = error]_vars

\* C13: a download through handleFinalDownload with an enhanced image
\* present attempts to persist the current export settings; whether the
\* save succeeds or throws, no error is set and the same image request is
\* issued, so a failed save is only logged.  handleDownload performs no
\* save at all: it leaves storage and the log alone.
Thm_C13_SaveFailureOnlyLogged ==
  [][DownloadRequested =>
       IF app = "App1"
         THEN /\ SavedNow \/ SaveFailedNow
              /\ error' = error
              /\ pending' = Append(pending, Request("handleFinalDownload"))
         ELSE stored' = stored /\ logged' = logged]_vars

\* a download completed although its save had thrown
Wit_C13_DownloadAfterFailedSave ==
  /\ app = "App1"
  /\ exports = 1
  /\ logged = 1
  /\ downloads = 1
  /\ Exported
  /\ error = JNull

\* position of a statement in the recorded order of a rasterization
StepOf(name) ==
  CHOOSE k \in DOMAIN lastExport.steps : lastExport.steps[k] = name

\* C14: the filter set on the context before the image is drawn is
\* saturate(s%) contrast(c%) brightness(b%) sepia(w%), in that order,
\* for the colour-grading values s, c, b, w of the settings exported,
\* whatever their preset field; both handlers build the same string
Thm_C14_FilterStagesInOrder ==
  Exported =>
    LET cg == lastExport.settings.colorGrading[2]
    IN /\ lastExport.filter =
            "saturate(" \o ToString(cg.saturation[2]) \o "%) contrast("
            \o ToString(cg.contrast[2]) \o "%) brightness("
            \o ToString(cg.brightness[2]) \o "%) sepia("
            \o ToString(cg.warmth[2]) \o "%)"
       /\ getCanvasFilter(cg) = filterDownload(cg)
       /\ StepOf("ctx.filter") < StepOf("ctx.drawImage")

\* the vivid grading exported by handleFinalDownload
Wit_C14_VividGrading ==
  /\ Exported
  /\ lastExport.handler = "handleFinalDownload"
  /\ lastExport.filter =
       "saturate(130%) contrast(110%) brightness(105%) sepia(20%)"

\* the file names a handler can offer with extension ext
FileNames(ext) ==
  {"ai-fashion-photoshoot-enhanced" \o ext, "ai-fashion-studio" \o ext}

\* q / 100 for the percentages q
Hundredths == [q \in 0..100 |-> FDiv(FInt(q), FInt(100))]

\* C15: every successful export encodes jpeg as image/jpeg with the
\* quality percentage divided by 100, a fraction between 0.1 and 1, and
\* names the file .jpeg; it encodes png as image/png with no quality
\* argument and names the file .png
Thm_C15_EncodingAgrees ==
  Exported =>
    LET S == lastExport.settings
        e == lastExport.encode
    IN IF S.format = JStr("jpeg")
         THEN /\ e.mime = "image/jpeg"
              /\ e.filename \in FileNames(".jpeg")
              /\ e.quality # Undefined
              /\ e.quality = Hundredths[S.quality[2]]
              /\ FGeq(e.quality, Hundredths[10])
              /\ FGeq(Hundredths[100], e.quality)
         ELSE /\ S.format = JStr("png")
              /\ e.mime = "image/png"
              /\ e.filename \in FileNames(".png")
              /\ e.quality = Undefined

\* a jpeg exported at quality 10, the lowest valid percentage
Wit_C15_JpegLowestQuality ==
  /\ Exported
  /\ lastExport.handler = "handleFinalDownload"
  /\ lastExport.settings.format = JStr("jpeg")
  /\ lastExport.settings.quality = JNum(10)
  /\ lastExport.encode.quality = Hundredths[10]

----------------------------------------------------------------------------
(* The crop path of handleFinalDownload on every small image and canvas:   *)
(* the first component, mounted on an empty store, has opened the modal on *)
(* an enhanced image of at most MaxDim x MaxDim pixels, and the modal has  *)
(* called setSettings once, with a fixed preset or an unlocked custom size *)
(* of at most MaxDim x MaxDim                                              *)

InitCrop ==
  /\ app = "App1"
  /\ stored = [kind |-> "absent"]
  /\ exportSettings \in CropSettings
  /\ enhancedImage \in {JStr(i.url) : i \in SmallImages}
  /\ showExportModal = TRUE
  /\ error = JNull
  /\ pending = <<>>
  /\ lastExport = NoExport
  /\ downloads = 0
  /\ logged = 0
  /\ exports = 0
  /\ edits = 1
  /\ FlowAfterEnhance
  /\ ZoomAtRest

NextCrop ==
  \/ \E saved \in BOOLEAN : handleFinalDownload(saved)
  \/ \E i \in 1..MaxExports, ctx \in BOOLEAN : onloadFinal(i, ctx)

SpecCrop == InitCrop /\ [][NextCrop]_vars

\* an export that went through the crop path
Cropped == Exported /\ lastExport.requiresCropping

\* what C19 says of the crop rectangle of a rasterization r apart from its
\* aspect ratio: it is non-empty, lies inside the source and spans the full
\* width or the full height
InsideSource(r) ==
  LET c == r.source
      W == FInt(r.width)
      H == FInt(r.height)
  IN /\ FLeq(FInt(0), c.sx)
     /\ FLeq(FInt(0), c.sy)
     /\ FLess(FInt(0), c.sWidth)
     /\ FLess(FInt(0), c.sHeight)
     /\ FLeq(FAdd(c.sx, c.sWidth), W)
     /\ FLeq(FAdd(c.sy, c.sHeight), H)
     /\ c.sWidth = W \/ c.sHeight = H

\* the source and the canvas of r have different aspect ratios
RatiosDiffer(r) ==
  FDiv(FInt(r.width), FInt(r.height)) #
    FDiv(FInt(r.canvas.width), FInt(r.canvas.height))

\* C19 as stated: on the crop path the source rectangle is non-empty and
\* inside the source, spans the full width or the full height, and
\* sWidth / sHeight equals the aspect ratio of the canvas whenever source
\* and canvas ratios differ
Cex_C19_CropRatioExact ==
  Cropped =>
    /\ InsideSource(lastExport)
    /\ RatiosDiffer(lastExport) =>
         FDiv(lastExport.source.sWidth, lastExport.source.sHeight) =
           FDiv(FInt(lastExport.canvas.width), FInt(lastExport.canvas.height))

CropRectRule(r) ==
  /\ InsideSource(r)
  /\ RatiosDiffer(r) =>
       Near(FDiv(r.source.sWidth, r.source.sHeight),
            FDiv(FInt(r.canvas.width), FInt(r.canvas.height)))

\* the rasterizations of the model whose crop rectangle obeys the rule
CropRectRenders == {r \in Renders : r.requiresCropping => CropRectRule(r)}

\* C19 as amended: on the crop path the source rectangle is non-empty and
\* inside the source, spans the full width or the full height, and
\* sWidth / sHeight equals the aspect ratio of the canvas within the
\* floating tolerance 1e-6 whenever source and canvas ratios differ
Thm_C19_CropRectInsideSource ==
  Exported => lastExport \in CropRectRenders

\* a 1 x 3 source cropped to a 1 x 5 canvas: the sampled width 3 * (1/5)
\* comes out just above 3/5, and so does sWidth / sHeight above 1/5
Wit_C19_RoundedCropWidth ==
  /\ Cropped
  /\ lastExport.width = 1
  /\ lastExport.height = 3
  /\ lastExport.canvas = [width |-> 1, height |-> 5]
  /\ lastExport.source.sHeight = FInt(3)
  /\ FLess(FDiv(FInt(3), FInt(5)), lastExport.source.sWidth)
  /\ FLess(lastExport.source.sWidth, FDiv(FInt(4), FInt(5)))

----------------------------------------------------------------------------
(* The Gemini service, src/unnamed/part_000                                *)

\* what the awaited promise of a service function settles with: ok with a
\* data URI, or rejected with thrown (isError: it is an Error carrying
\* message); occurred is the message of the error first raised inside the
\* function, requested tells whether ai.models.generateContent was called,
\* logged counts the console.error calls of the function
Resolved(url) ==
  [ok |-> TRUE, url |-> url, isError |-> FALSE, message |-> "",
   occurred |-> "", requested |-> TRUE, logged |-> 0]

\* thrown before the try block: nothing is requested and nothing logged
Rejected(message) ==
  [ok |-> FALSE, url |-> "", isError |-> TRUE, message |-> message,
   occurred |-> message, requested |-> FALSE, logged |-> 0]

\* the rejection of the FileReader's error event, which is no Error
RejectedWithEvent ==
  [ok |-> FALSE, url |-> "", isError |-> FALSE, message |-> "",
   occurred |-> "", requested |-> FALSE, logged |-> 0]

\* thrown by a catch block, which has logged what occurred in the try block
Rethrown(message, occurred) ==
  [ok |-> FALSE, url |-> "", isError |-> TRUE, message |-> message,
   occurred |-> occurred, requested |-> TRUE, logged |-> 1]

\* the position of the first c in s at or after from, 0 when there is none
Find(s, c, from) ==
  IF \E i \in from..Len(s) : SubSeq(s, i, i) = c
    THEN CHOOSE i \in from..Len(s) :
           /\ SubSeq(s, i, i) = c
           /\ \A j \in from..(i - 1) : SubSeq(s, j, j) # c
    ELSE 0

\* String.prototype.includes
Includes(s, searchString) ==
  \E i \in 1..(Len(s) - Len(searchString) + 1) :
    SubSeq(s, i, i + Len(searchString) - 1) = searchString

\* String.prototype.trim: white space and line terminators are stripped
\* from both ends.  The set holds every such character a string of a
\* module can hold: tab, line feed, U+000B, form feed, carriage return,
\* space, U+00A0, U+1680 and U+FEFF; U+2000 to U+200A, U+2028, U+2029,
\* U+202F, U+205F and U+3000 cannot be written in a string
Trim(p) ==
  LET WhiteSpace == {" ", "\t", "\n", "\r", "\f", "", " ", " ", "﻿"}
      kept == {i \in 1..Len(p) : SubSeq(p, i, i) \notin WhiteSpace}
  IN IF kept = {} THEN ""
     ELSE SubSeq(p, CHOOSE i \in kept : \A j \in kept : i <= j,
                 CHOOSE i \in kept : \A j \in kept : j <= i)

\* error.message.includes('API key not valid'), lines 90 and 156
IncludesKeyNotValid(m) == Includes(m, "API key not valid")

\* what generateContent answers to a request, which generateFashionImage
\* makes after its FileReader has ended with a string (read): an image
\* part with the given inlineData, no image part and the given
\* response.text, or a rejection
Answers ==
  {[read |-> "string", kind |-> "image", mimeType |-> "image/png",
    data |-> "4000x3000"],
   [read |-> "string", kind |-> "image", mimeType |-> "image/png",
    data |-> "corrupt"],
   [read |-> "string", kind |-> "text", text |-> "\tAPI key not valid"],
   [read |-> "string", kind |-> "text", text |-> "\n "],
   [read |-> "string", kind |-> "rejects",
    message |-> "[400] API key not valid. Check the key."],
   [read |-> "string", kind |-> "rejects",
    message |-> "Resource has been exhausted (e.g. check quota)."]}

\* the catch block of generateFashionImage, lines 88-94, entered with an
\* Error of the given message
catchGenerate(occurred) ==
  IF IncludesKeyNotValid(occurred)
    THEN Rethrown("Invalid API Key. Please check your environment configuration.",
                  occurred)
    ELSE Rethrown("Failed to generate image due to an API error.", occurred)

\* lines 79-84: what is thrown when the response holds no image part
noImageGenerated(textResponse) ==
  IF textResponse # ""
    THEN catchGenerate("The model returned a text response instead of an image: \""
                       \o textResponse \o "\"")
    ELSE catchGenerate("No image was generated. The model response did not contain image data.")

\* generateFashionImage, lines 35-95, for the answer a of the world
generateFashionImage(imageFile, prompt, a) ==
  IF ~apiKeySet
    THEN Rejected("API Key not configured. Please set the API_KEY environment variable.")
  ELSE IF a.read = "notString"
    THEN Rejected("Failed to read file.")
  ELSE IF a.read = "error"
    THEN RejectedWithEvent
  ELSE IF a.kind = "rejects"
    THEN catchGenerate(a.message)
  ELSE IF a.kind = "image"
    THEN Resolved(DataUri(a.mimeType, GeneratedFrom(imageFile)))
  ELSE noImageGenerated(Trim(a.text))

\* the catch block of enhanceImage, lines 154-160, entered with an Error
\* of the given message
catchEnhance(occurred) ==
  IF IncludesKeyNotValid(occurred)
    THEN Rethrown("Invalid API Key. Please check your environment configuration.",
                  occurred)
    ELSE Rethrown("Failed to enhance image due to an API error.", occurred)

\* lines 148-153: what is thrown when the response holds no image part
noImageEnhanced(textResponse) ==
  IF textResponse # ""
    THEN catchEnhance("The enhancement model returned text instead of an image: \""
                      \o textResponse \o "\"")
    ELSE catchEnhance("Enhancement failed. The model response did not contain image data.")

\* lines 105 and 109: the first two elements of uri.split(','), "" for
\* one that is missing, and header.match(/:(.*?);/)?.[1], "" without a
\* match: the match starts at the first colon that is followed by a
\* semicolon with no line terminator in between (the dot matches none)
\* and its group ends before the first such semicolon
SplitUri(uri) ==
  LET splitAt(comma, next) ==
        IF comma = 0 THEN [header |-> uri, data |-> ""]
        ELSE [header |-> SubSeq(uri, 1, comma - 1),
              data |-> SubSeq(uri, comma + 1,
                              IF next = 0 THEN Len(uri) ELSE next - 1)]
      oneLine(header, colon, semi) ==
        \A i \in (colon + 1)..(semi - 1) :
          SubSeq(header, i, i) \notin {"\n", "\r"}
      matches(header, colon, semi) ==
        /\ SubSeq(header, colon, colon) = ":"
        /\ semi # 0
        /\ oneLine(header, colon, semi)
      starts(header) ==
        {c \in 1..Len(header) :
           matches(header, c, Find(header, ";", c + 1))}
      group(header, colon) ==
        SubSeq(header, colon + 1, Find(header, ";", colon + 1) - 1)
      mimeTypeOf(header, found) ==
        IF found = {} THEN ""
        ELSE group(header, CHOOSE c \in found : \A d \in found : c <= d)
      matched(parts) ==
        [header |-> parts.header, data |-> parts.data,
         mimeType |-> mimeTypeOf(parts.header, starts(parts.header))]
      first(comma) ==
        matched(splitAt(comma,
                        IF comma = 0 THEN 0 ELSE Find(uri, ",", comma + 1)))
  IN first(Find(uri, ",", 1))

\* enhanceImage, lines 97-161, for the answer a of the world
enhanceImage(base64ImageDataUri, a) ==
  LET parts == SplitUri(base64ImageDataUri)
  IN IF ~apiKeySet
       THEN Rejected("API Key not configured. Please set the API_KEY environment variable.")
     ELSE IF parts.header = "" \/ parts.data = ""
       THEN Rejected("Invalid base64 image data URI for enhancement.")
     ELSE IF parts.mimeType = ""
       THEN Rejected("Could not extract mime type from data URI for enhancement.")
     ELSE IF a.kind = "rejects"
       THEN catchEnhance(a.message)
     ELSE IF a.kind = "image"
       THEN Resolved(DataUri(a.mimeType, a.data))
     ELSE noImageEnhanced(Trim(a.text))

----------------------------------------------------------------------------
(* The generate / enhance flow of the two App components                   *)

Files == {"fileA", "fileB"}

\* what the user types into the scene description
Prompts == {" \n\t ", "runway"}

\* App2 renders the configuration error page instead of the studio when
\* the key is missing (lines 492-503)
StudioRendered == app = "App1" \/ (app = "App2" /\ apiKeySet)

\* the state right after the component has mounted
InitFlow ==
  /\ app \in {"App1", "App2"}
  /\ apiKeySet \in BOOLEAN
  /\ stored = [kind |-> "absent"]
  /\ exportSettings =
       IF app = "App1" THEN loadInitialSettings(stored)
       ELSE initialExportSettings
  /\ enhancedImage = JNull
  /\ showExportModal = FALSE
  /\ error = JNull
  /\ pending = <<>>
  /\ lastExport = NoExport
  /\ downloads = 0
  /\ logged = 0
  /\ exports = 0
  /\ edits = 0
  /\ FlowConstructed
  /\ scenePrompt = IF app = "App1" THEN DefaultPrompt ELSE ""
  /\ ZoomAtRest

\* onChange of the TextInput, lines 296 and 516
setScenePrompt(p) ==
  /\ StudioRendered
  /\ scenePrompt' = p
  /\ UNCHANGED <<app, exportSettings, enhancedImage, showExportModal, error,
                 exportVars, zoomVars>>
  /\ UNCHANGED <<apiKeySet, sourceImage, generatedImage, isLoading,
                 isEnhancing, calls, lastSettle, started,
                 serviceCalls>>

\* handleImageUpload, lines 99-103 and 393-401
handleImageUpload(file) ==
  /\ StudioRendered
  /\ sourceImage' = JStr(file)
  /\ generatedImage' = JNull
  /\ error' = IF app = "App2" THEN JNull ELSE error
  /\ UNCHANGED <<app, exportSettings, enhancedImage, showExportModal,
                 exportVars, zoomVars>>
  /\ UNCHANGED <<apiKeySet, isLoading, isEnhancing, calls, lastSettle,
                 started, serviceCalls, scenePrompt>>

\* the message a handler shows for what its await threw: lines 120 and 415
\* for generate, 150 and 434 for enhance
Shown(r, fallback) == IF r.isError THEN r.message ELSE fallback

\* an answer of the world that a call never gets to see, because the
\* function threw before asking for it
Unanswered == [read |-> "string", kind |-> "text", text |-> ""]

\* variant of the generate handlers without their finally block
generateReturns_noFinally(r, shown, image) ==
  /\ generatedImage' = IF r.ok THEN JStr(r.url) ELSE image
  /\ error' = IF r.ok THEN error ELSE JStr(shown)
  /\ isLoading' = IF r.ok THEN FALSE ELSE isLoading
  /\ logged' = logged + r.logged + (IF ~r.ok /\ app = "App1" THEN 1 ELSE 0)
  /\ lastSettle' = [kind |-> "generate", ok |-> r.ok,
                    occurred |-> r.occurred,
                    shown |-> IF r.ok THEN "" ELSE shown,
                    n |-> lastSettle.n + 1]

\* the rest of handleGenerate / handleGenerateClick once the awaited
\* generateFashionImage has settled with r, lines 117-123 and 414-419;
\* image is the generated image as the handler has left it before the
\* await, and only the catch block of the first component logs (line 119)
generateReturns(r, shown, image) ==
  /\ generatedImage' = IF r.ok THEN JStr(r.url) ELSE image
  /\ error' = IF r.ok THEN error ELSE JStr(shown)
  /\ isLoading' = FALSE
  /\ logged' = logged + r.logged + (IF ~r.ok /\ app = "App1" THEN 1 ELSE 0)
  /\ lastSettle' = [kind |-> "generate", ok |-> r.ok,
                    occurred |-> r.occurred,
                    shown |-> IF r.ok THEN "" ELSE shown,
                    n |-> lastSettle.n + 1]

\* the fallback messages of lines 120 and 415
generateFallback ==
  IF app = "App1" THEN "An unknown error occurred."
  ELSE "An unknown error occurred during image generation."

\* the turn of a click on the generate button of the first component
\* (enabled by line 303): handleGenerate, lines 105-123, up to the await of
\* the FileReader (part_000 line 47), or to its end when
\* generateFashionImage throws at line 39 and the catch and finally blocks
\* run before the turn is over
handleGenerate ==
  /\ app = "App1"
  /\ ~(isLoading \/ isEnhancing \/ ~Truthy(sourceImage))
  /\ started + exports < MaxStarts
  /\ started' = started + 1
  /\ IF ~Truthy(sourceImage)
       THEN /\ error' = JStr("Please upload a source image first.")
            /\ UNCHANGED <<isLoading, generatedImage, calls, logged,
                           lastSettle>>
     ELSE IF ~apiKeySet
       THEN /\ generateReturns(
                 generateFashionImage(sourceImage[2], scenePrompt,
                                      Unanswered),
                 Shown(generateFashionImage(sourceImage[2], scenePrompt,
                                            Unanswered),
                       generateFallback),
                 JNull)
            /\ UNCHANGED calls
     ELSE /\ isLoading' = TRUE
          /\ error' = JNull
          /\ generatedImage' = JNull
          /\ calls' = Append(calls, [fn |-> "generate",
                                     file |-> sourceImage[2],
                                     prompt |-> scenePrompt,
                                     stage |-> "reading"])
          /\ UNCHANGED <<logged, lastSettle>>
  /\ UNCHANGED <<app, exportSettings, enhancedImage, showExportModal,
                 stored, pending, lastExport, downloads, exports, edits,
                 zoomVars>>
  /\ UNCHANGED <<apiKeySet, sourceImage, isEnhancing, serviceCalls,
                 scenePrompt>>

\* the turn of a click on the generate button of the second component
\* (enabled by line 522, rendered only with the key set): handleGenerateClick,
\* lines 403-419, up to the await of the FileReader (part_000 line 47)
handleGenerateClick ==
  /\ app = "App2"
  /\ apiKeySet
  /\ ~(isLoading \/ ~Truthy(sourceImage) \/ Trim(scenePrompt) = "")
  /\ started + exports < MaxStarts
  /\ started' = started + 1
  /\ IF ~Truthy(sourceImage) \/ Trim(scenePrompt) = ""
       THEN /\ error' = JStr("Please upload an image and provide a scene description.")
            /\ UNCHANGED <<isLoading, generatedImage, calls>>
       ELSE /\ error' = JNull
            /\ isLoading' = TRUE
            /\ generatedImage' = JNull
            /\ calls' = Append(calls, [fn |-> "generate",
                                       file |-> sourceImage[2],
                                       prompt |-> scenePrompt,
                                       stage |-> "reading"])
  /\ UNCHANGED <<app, exportSettings, enhancedImage, showExportModal,
                 exportVars, zoomVars>>
  /\ UNCHANGED <<apiKeySet, sourceImage, isEnhancing, lastSettle,
                 serviceCalls, scenePrompt>>

\* the turn in which the FileReader of the generate call i ends
\* (part_000 lines 14-25) with a string result, with another result or
\* with the error event: with a string the function goes on to line 58,
\* where the request is made and awaited; otherwise the promise of line 47
\* rejects outside the try block and the handler finishes in this turn
readerEnds(i, read) ==
  /\ i \in DOMAIN calls
  /\ calls[i].fn = "generate"
  /\ calls[i].stage = "reading"
  /\ IF read = "string"
       THEN /\ calls' = [calls EXCEPT ![i].stage = "requested"]
            /\ serviceCalls' = serviceCalls + 1
            /\ UNCHANGED <<generatedImage, error, isLoading, logged,
                           lastSettle>>
       ELSE /\ generateReturns(
                 generateFashionImage(calls[i].file, calls[i].prompt,
                                      [Unanswered EXCEPT !.read = read]),
                 Shown(generateFashionImage(calls[i].file, calls[i].prompt,
                                            [Unanswered EXCEPT
                                               !.read = read]),
                       generateFallback),
                 generatedImage)
            /\ calls' = Remove(calls, i)
            /\ UNCHANGED serviceCalls
  /\ UNCHANGED <<app, exportSettings, enhancedImage, showExportModal, stored,
                 pending, lastExport, downloads, exports, edits, zoomVars>>
  /\ UNCHANGED <<apiKeySet, sourceImage, isEnhancing, started,
                 scenePrompt>>

\* the turn in which the request of the generate call i is answered with a:
\* the rest of generateFashionImage (part_000 lines 69-94) and of the
\* handler (lines 117-123 and 414-419)
generateSettles(i, a) ==
  /\ i \in DOMAIN calls
  /\ calls[i].fn = "generate"
  /\ calls[i].stage = "requested"
  /\ a \in Answers
  /\ a.read = "string"
  /\ generateReturns(
       generateFashionImage(calls[i].file, calls[i].prompt, a),
       Shown(generateFashionImage(calls[i].file, calls[i].prompt, a),
             generateFallback),
       generatedImage)
  /\ calls' = Remove(calls, i)
  /\ UNCHANGED <<app, exportSettings, enhancedImage, showExportModal, stored,
                 pending, lastExport, downloads, exports, edits, zoomVars>>
  /\ UNCHANGED <<apiKeySet, sourceImage, isEnhancing, started,
                 serviceCalls, scenePrompt>>

\* the enhance button is rendered with an image and disabled while either
\* flag is set (ImageDisplay lines 37-41, part_001 lines 151-154)
EnhanceEnabled == Truthy(generatedImage) /\ ~(isLoading \/ isEnhancing)

\* the rest of handleEnhance / handleEnhanceClick once the awaited
\* enhanceImage has settled with r, lines 146-153 and 430-437; only the
\* catch block of the first component logs (line 149)
enhanceReturns(r, shown) ==
  /\ enhancedImage' = IF r.ok THEN JStr(r.url) ELSE enhancedImage
  /\ exportSettings' = IF r.ok /\ app = "App2" THEN initialExportSettings
                       ELSE exportSettings
  /\ showExportModal' = IF r.ok THEN TRUE ELSE showExportModal
  /\ error' = IF r.ok THEN error ELSE JStr(shown)
  /\ isEnhancing' = FALSE
  /\ logged' = logged + r.logged + (IF ~r.ok /\ app = "App1" THEN 1 ELSE 0)
  /\ lastSettle' = [kind |-> "enhance", ok |-> r.ok,
                    occurred |-> r.occurred,
                    shown |-> IF r.ok THEN "" ELSE shown,
                    n |-> lastSettle.n + 1]

\* the fallback messages of lines 150 and 434
enhanceFallback ==
  IF app = "App1" THEN "Failed to enhance image."
  ELSE "An unknown error occurred during image enhancement."

\* the turn of a click on the enhance button: the handler up to its await
\* and enhanceImage up to the await of line 127, where the request has
\* been made; when enhanceImage throws before that (lines 99, 107, 111)
\* the catch and finally blocks run before the turn is over.  precondition
\* is the message of the first component's early return (line 137), "" for
\* the silent return of the second (line 423)
enhanceClicked(precondition) ==
  /\ EnhanceEnabled
  /\ started + exports < MaxStarts
  /\ started' = started + 1
  /\ IF ~Truthy(generatedImage)
       THEN /\ error' = IF precondition = "" THEN error
                        ELSE JStr(precondition)
            /\ UNCHANGED <<isEnhancing, calls, serviceCalls, logged,
                           lastSettle, enhancedImage, exportSettings,
                           showExportModal>>
     ELSE IF ~enhanceImage(generatedImage[2], Unanswered).requested
       THEN /\ enhanceReturns(
                 enhanceImage(generatedImage[2], Unanswered),
                 Shown(enhanceImage(generatedImage[2], Unanswered),
                       enhanceFallback))
            /\ UNCHANGED <<calls, serviceCalls>>
     ELSE /\ isEnhancing' = TRUE
          /\ error' = JNull
          /\ calls' = Append(calls, [fn |-> "enhance",
                                     uri |-> generatedImage[2],
                                     stage |-> "requested"])
          /\ serviceCalls' = serviceCalls + 1
          /\ UNCHANGED <<logged, lastSettle, enhancedImage, exportSettings,
                         showExportModal>>
  /\ UNCHANGED <<app, stored, pending, lastExport, downloads, exports, edits,
                 zoomVars>>
  /\ UNCHANGED <<apiKeySet, sourceImage, generatedImage, isLoading,
                 scenePrompt>>

\* handleEnhance, lines 135-153
handleEnhance ==
  /\ app = "App1"
  /\ enhanceClicked("No generated image to enhance.")

\* handleEnhanceClick, lines 422-437
handleEnhanceClick ==
  /\ app = "App2"
  /\ apiKeySet
  /\ enhanceClicked("")

\* the turn in which the request of the enhance call i is answered with a:
\* the rest of enhanceImage (part_000 lines 138-160) and of the handler
\* (lines 146-153 and 430-437)
enhanceSettles(i, a) ==
  /\ i \in DOMAIN calls
  /\ calls[i].fn = "enhance"
  /\ a \in Answers
  /\ a.read = "string"
  /\ enhanceReturns(enhanceImage(calls[i].uri, a),
                    Shown(enhanceImage(calls[i].uri, a), enhanceFallback))
  /\ calls' = Remove(calls, i)
  /\ UNCHANGED <<app, stored, pending, lastExport, downloads, exports, edits,
                 zoomVars>>
  /\ UNCHANGED <<apiKeySet, sourceImage, generatedImage, isLoading,
                 started, serviceCalls, scenePrompt>>

NextFlow ==
  \/ \E p \in Prompts : setScenePrompt(p)
  \/ \E file \in Files : handleImageUpload(file)
  \/ handleGenerate
  \/ handleGenerateClick
  \/ \E i \in 1..MaxStarts, read \in {"string", "notString", "error"} :
       readerEnds(i, read)
  \/ \E i \in 1..MaxStarts, a \in Answers : generateSettles(i, a)
  \/ handleEnhance
  \/ handleEnhanceClick
  \/ \E i \in 1..MaxStarts, a \in Answers : enhanceSettles(i, a)
  \/ setSettings([defaultSettings EXCEPT !.format = JStr("png")])
  \/ onClose
  \/ \E saved \in BOOLEAN :
       started + exports < MaxStarts /\ handleFinalDownload(saved)
  \/ started + exports < MaxStarts /\ handleDownload
  \/ \E i \in 1..MaxExports, ctx \in BOOLEAN : onloadFinal(i, ctx)
  \/ \E i \in 1..MaxExports : onerrorFinal(i)
  \/ \E i \in 1..MaxExports, ctx \in BOOLEAN : onloadDownload(i, ctx)
  \/ \E i \in 1..MaxExports : errorEventDownload(i)

SpecFlow == InitFlow /\ [][NextFlow]_vars

----------------------------------------------------------------------------
(* Properties of the generate / enhance flow *)

\* a service call of the given function is awaited
InFlight(fn) == \E i \in DOMAIN calls : calls[i].fn = fn

\* the last awaited call was rejected
SettledFailed == lastSettle.kind # "none" /\ ~lastSettle.ok

\* C12 as stated: a handler run makes at most one request to the model,
\* and whenever a service call fails with an error that carries a message,
\* the message shown in the error state is that message
Cex_C12_ErrorsReachCallerVerbatim ==
  /\ serviceCalls <= started
  /\ (SettledFailed /\ lastSettle.occurred # "") =>
       lastSettle.shown = lastSettle.occurred

\* C16 as stated: a generated image on display was produced from the
\* source image currently uploaded
Cex_C16_NoStaleGeneratedImage ==
  Truthy(generatedImage) =>
    /\ Truthy(sourceImage)
    /\ SplitUri(generatedImage[2]).data = GeneratedFrom(sourceImage[2])

\* C17 as stated: a generate call and an enhance call are never awaited at
\* the same time
Cex_C17_NeverBothInFlight == ~(InFlight("generate") /\ InFlight("enhance"))

\* a step in which the awaited promise of the given function settled
Settles(fn) == lastSettle'.n = lastSettle.n + 1 /\ lastSettle'.kind = fn

\* the number of awaited calls of the given function
Awaited(fn) == Cardinality({i \in DOMAIN calls : calls[i].fn = fn})

\* a step in which the request of an awaited generate call went out
GenerateRequested ==
  \E i \in DOMAIN calls :
    /\ calls[i].stage = "reading"
    /\ i \in DOMAIN calls'
    /\ calls'[i] = [calls[i] EXCEPT !.stage = "requested"]

  /\ ~isLoading
  /\ generatedImage = JNull
  /\ error = JStr("Failed to generate image due to an API error.")

----------------------------------------------------------------------------
(* The zoomable ImageDisplay, src/unnamed/part_001, as the display of the  *)
(* generated image                                                         *)

\* line 15
showLoading == isLoading \/ isEnhancing

\* line 26: the display of the generated image is given onEnhanceClick
isInteractive == TRUE

\* containerRef.current.getBoundingClientRect(), line 39
RectLeft == 10
RectTop == 20

\* line 32
zoomSpeed == FDiv(FInt(1), FInt(10))
\* Math.max(1, Math.min(newScale, 5)), line 35
MinScale == 1
MaxScale == 5
\* line 37
ScaleTolerance == FDiv(FInt(1), FInt(100))


\* { x: 0, y: 0 }
Origin == [x |-> FInt(0), y |-> FInt(0)]

\* wheel deltas (e.deltaY, line 34) and pointer positions (clientX, clientY,
\* lines 40-41) of the model
DeltaYs == {-100, -1, 0, 100}
Pointers == {[clientX |-> 10, clientY |-> 20],
             [clientX |-> 110, clientY |-> 70]}

\* the flow states the display is shown in: a generated image on display,
\* or a generation under way
InitZoom ==
  /\ app \in {"App1", "App2"}
  /\ apiKeySet = TRUE
  /\ stored = [kind |-> "absent"]
  /\ exportSettings =
       IF app = "App1" THEN loadInitialSettings(stored)
       ELSE initialExportSettings
  /\ enhancedImage = JNull
  /\ showExportModal = FALSE
  /\ error = JNull
  /\ pending = <<>>
  /\ lastExport = NoExport
  /\ downloads = 0
  /\ logged = 0
  /\ exports = 0
  /\ edits = 0
  /\ sourceImage = JStr("fileA")
  /\ scenePrompt = "runway"
  /\ isEnhancing = FALSE
  /\ started = 1
  /\ \/ /\ isLoading = FALSE
        /\ generatedImage = JStr(DataUri("image/png", GeneratedFrom("fileA")))
        /\ calls = <<>>
        /\ lastSettle = [kind |-> "generate", ok |-> TRUE, occurred |-> "",
                         shown |-> "", n |-> 1]
        /\ serviceCalls = 1
     \/ /\ isLoading = TRUE
        /\ generatedImage = JNull
        /\ calls = << [fn |-> "generate", file |-> "fileA",
                       prompt |-> "runway", stage |-> "reading"] >>
        /\ lastSettle = NoSettle
        /\ serviceCalls = 0
  /\ ZoomAtRest

\* handleWheel, lines 28-55
handleWheel(deltaY, e) ==
  /\ zoomEvents < MaxZoomEvents
  /\ zoomEvents' = zoomEvents + 1
  /\ IF ~isInteractive \/ isDragging
       THEN UNCHANGED <<scale, position>>
       ELSE LET newScale == FSub(scale, FMul(FMul(FInt(deltaY), zoomSpeed),
                                               FDiv(FInt(1), FInt(10))))
                clampedScale == FMax(FInt(MinScale),
                                     FMin(newScale, FInt(MaxScale)))
                mouseX == FInt(e.clientX - RectLeft)
                mouseY == FInt(e.clientY - RectTop)
                newPosX == FSub(mouseX,
                                FMul(FDiv(FSub(mouseX, position.x), scale),
                                     clampedScale))
                newPosY == FSub(mouseY,
                                FMul(FDiv(FSub(mouseY, position.y), scale),
                                     clampedScale))
            IN IF FLess(FAbs(FSub(clampedScale, scale)), ScaleTolerance)
                 THEN UNCHANGED <<scale, position>>
                 ELSE /\ scale' = clampedScale
                      /\ position' = IF clampedScale = FInt(1) THEN Origin
                                     ELSE [x |-> newPosX, y |-> newPosY]
  /\ UNCHANGED <<isDragging, startMousePos, startImgPos>>
  /\ UNCHANGED <<app, exportSettings, enhancedImage, showExportModal, error,
                 exportVars, flowVars>>

\* handleMouseDown, lines 57-64
handleMouseDown(e) ==
  /\ zoomEvents < MaxZoomEvents
  /\ zoomEvents' = zoomEvents + 1
  /\ IF ~isInteractive \/ FLeq(scale, FInt(1)) \/ showLoading
       THEN UNCHANGED <<isDragging, startMousePos, startImgPos>>
       ELSE /\ isDragging' = TRUE
            /\ startMousePos' = [x |-> e.clientX, y |-> e.clientY]
            /\ startImgPos' = position
  /\ UNCHANGED <<scale, position>>
  /\ UNCHANGED <<app, exportSettings, enhancedImage, showExportModal, error,
                 exportVars, flowVars>>

\* handleMouseMove, lines 66-75
handleMouseMove(e) ==
  /\ zoomEvents < MaxZoomEvents
  /\ zoomEvents' = zoomEvents + 1
  /\ IF ~isInteractive \/ ~isDragging
       THEN UNCHANGED position
       ELSE LET dx == e.clientX - startMousePos.x
                dy == e.clientY - startMousePos.y
            IN position' = [x |-> FAdd(startImgPos.x, FInt(dx)),
                            y |-> FAdd(startImgPos.y, FInt(dy))]
  /\ UNCHANGED <<scale, isDragging, startMousePos, startImgPos>>
  /\ UNCHANGED <<app, exportSettings, enhancedImage, showExportModal, error,
                 exportVars, flowVars>>

\* handleMouseUpOrLeave, lines 77-82
handleMouseUpOrLeave ==
  /\ zoomEvents < MaxZoomEvents
  /\ zoomEvents' = zoomEvents + 1
  /\ IF ~isInteractive \/ ~isDragging
       THEN UNCHANGED isDragging
       ELSE isDragging' = FALSE
  /\ UNCHANGED <<scale, position, startMousePos, startImgPos>>
  /\ UNCHANGED <<app, exportSettings, enhancedImage, showExportModal, error,
                 exportVars, flowVars>>

\* handleResetZoom, lines 84-88; its button is rendered by line 140
handleResetZoom ==
  /\ isInteractive /\ FLess(FInt(1), scale) /\ ~showLoading
  /\ zoomEvents < MaxZoomEvents
  /\ zoomEvents' = zoomEvents + 1
  /\ scale' = FInt(1)
  /\ position' = Origin
  /\ UNCHANGED <<isDragging, startMousePos, startImgPos>>
  /\ UNCHANGED <<app, exportSettings, enhancedImage, showExportModal, error,
                 exportVars, flowVars>>

NextZoom ==
  \/ \E deltaY \in DeltaYs, e \in Pointers : handleWheel(deltaY, e)
  \/ \E e \in Pointers : handleMouseDown(e)
  \/ \E e \in Pointers : handleMouseMove(e)
  \/ handleMouseUpOrLeave
  \/ handleResetZoom

SpecZoom == InitZoom /\ [][NextZoom]_vars

\* C20 as stated: scale stays within [1,5] and the pan position is (0,0)
\* whenever scale is 1
Cex_C20_PositionZeroAtScaleOne ==
  /\ FGeq(scale, FInt(MinScale))
  /\ FGeq(FInt(MaxScale), scale)
  /\ scale = FInt(1) => position = Origin

====
